---- MODULE Spec2Model ----
\* State machine of the layer control of src/js/main.js: StateStore,
\* OverlayManager and the LayersControl facade, with the deferred
\* (renderOnClick) loads as pending asynchronous calls.
\*
\* Conventions
\*   - opacities are scaled by OpacityScale: 10 stands for 1.0, 5 for 0.5;
\*   - Undef stands for a numeric option that is undefined (not configured);
\*   - NullNum stands for the JS value null in a numeric viewport field;
\*   - a partial update ({visible}, {opacity}, {zoom}, ...) is a record that
\*     has exactly the fields the caller passed;
\*   - every handler is written as an operator from an instance (the record w
\*     of all fields of the three objects, the storage and the render
\*     surface) to the instance after the handler; an action commits it.
EXTENDS Integers, Sequences, FiniteSets, Bags, TLC

VARIABLES
    overlays,               \* options.overlays: sequence of overlay configurations
    persist,                \* options.persist.localStorageKey is set
    currentBaseId,          \* StateStore.currentBaseId
    previousBaseId,         \* StateStore.previousBaseId
    overlayStates,          \* StateStore.overlayStates: id -> {visible, opacity}
    groupStates,            \* StateStore.groupStates: id -> {visible, opacity}
    layerOrder,             \* StateStore.layerOrder
    viewportState,          \* StateStore.viewportState
    previousViewportState,  \* StateStore.previousViewportState
    storage,                \* localStorage[localStorageKey]: NoRecord or the written record
    map,                    \* OverlayManager.map is set (control attached)
    mapZoom,                \* map.getZoom()
    deckLayers,             \* OverlayManager.deckLayers: Map in insertion order, <<[id, overlay, opacity]>>
    deckProps,              \* layers last handed to deckOverlay.setProps (layer ids)
    renderOnClickCache,     \* OverlayManager.renderOnClickCache: id -> cached deckLayers
    renderOnClickLoading,   \* OverlayManager.renderOnClickLoading
    renderOnClickErrors,    \* OverlayManager.renderOnClickErrors
    zoomFilteredOverlays,   \* OverlayManager.zoomFilteredOverlays
    calls,                  \* bag of suspended async calls (show / toggleOverlay / toggleOverlayGroup)
    log,                    \* what the last step wrote and emitted, in order
    exc,                    \* the last step ended with an uncaught exception
    snap,                   \* object returned by the last getState() still held by the caller
    trace,                  \* events of the group toggle in progress (history)
    listening,              \* a subscriber records the events into log and trace
    events,                 \* EventEmitter.events: event name -> handlers in subscription order
    invoked,                \* what the last EventEmitter.emit did (history)
    viewportSavers,         \* debouncedSave closures registered on the map
    uiManager,              \* UIManager (consolidated variant): overlayToLayerIds, deckOverlay, loadingStates, errorStates
    persistTimeout,         \* StateManager: the timeout set by _debouncedPersist is pending
    saveTimeout,            \* saveTimeout of each closure: ticks left, or NoTimer
    viewportWrites,         \* setViewport calls made by the closures since the last camera event (history)
    sinceCamera             \* ticks since the last camera event, or NoCamera (clock)

controlVars == <<overlays, persist, currentBaseId, previousBaseId, overlayStates,
                 groupStates, layerOrder, viewportState, previousViewportState,
                 storage, map, mapZoom, deckLayers, deckProps, renderOnClickCache,
                 renderOnClickLoading, renderOnClickErrors, zoomFilteredOverlays,
                 calls, log, exc, snap, trace, listening, viewportSavers, uiManager,
                 persistTimeout>>

timerVars == <<saveTimeout, viewportWrites, sinceCamera>>

vars == <<controlVars, events, invoked, timerVars>>

-----------------------------------------------------------------------------
\* Values

OpacityScale == 10
Undef == -99
NullNum == -1
NoGroup == "none"
NoBase == "none"
NoCenter == "null"
NoRecord == [none |-> TRUE]
\* a localStorage whose every access throws, and an item JSON.parse rejects
StorageDown == [down |-> TRUE]
CorruptRecord == [corrupt |-> TRUE]
NoSnap == [none |-> TRUE]

\* The value of a running instance, and the step that installs one.
\* (log, exc and styleRequests belong to the handler that runs next)
World ==
    [overlays |-> overlays, persist |-> persist,
     currentBaseId |-> currentBaseId, previousBaseId |-> previousBaseId,
     overlayStates |-> overlayStates, groupStates |-> groupStates,
     layerOrder |-> layerOrder, viewportState |-> viewportState,
     previousViewportState |-> previousViewportState, storage |-> storage,
     map |-> map, mapZoom |-> mapZoom, deckLayers |-> deckLayers,
     deckProps |-> deckProps, renderOnClickCache |-> renderOnClickCache,
     renderOnClickLoading |-> renderOnClickLoading,
     renderOnClickErrors |-> renderOnClickErrors,
     zoomFilteredOverlays |-> zoomFilteredOverlays,
     calls |-> calls, log |-> <<>>, exc |-> FALSE, snap |-> snap,
     trace |-> trace, viewportSavers |-> viewportSavers,
     uiManager |-> uiManager, persistTimeout |-> persistTimeout,
     styleRequests |-> 0]

\* An emitter nobody subscribed to (this.events = {}), and no publish made yet.
EventNames == {"change", "error"}

NoEvents == [e \in EventNames |-> <<>>]

NoPublish == [event |-> "none", subscribed |-> <<>>, calls |-> <<>>, threw |-> FALSE]

\* No timeout pending (saveTimeout undefined or already run), and no camera
\* event seen yet.
NoTimer == -1

NoCamera == -1

MaxSavers == 3

NoTimeouts == [i \in 1..MaxSavers |-> NoTimer]

\* A UIManager as constructed: empty maps, no deck overlay.
NoUI == [overlayToLayerIds |-> <<>>, deckOverlay |-> FALSE,
         loadingStates |-> {}, errorStates |-> {}]

CommitControl(w) ==
    /\ overlays' = w.overlays
    /\ persist' = w.persist
    /\ currentBaseId' = w.currentBaseId
    /\ previousBaseId' = w.previousBaseId
    /\ overlayStates' = w.overlayStates
    /\ groupStates' = w.groupStates
    /\ layerOrder' = w.layerOrder
    /\ viewportState' = w.viewportState
    /\ previousViewportState' = w.previousViewportState
    /\ storage' = w.storage
    /\ map' = w.map
    /\ mapZoom' = w.mapZoom
    /\ deckLayers' = w.deckLayers
    /\ deckProps' = w.deckProps
    /\ renderOnClickCache' = w.renderOnClickCache
    /\ renderOnClickLoading' = w.renderOnClickLoading
    /\ renderOnClickErrors' = w.renderOnClickErrors
    /\ zoomFilteredOverlays' = w.zoomFilteredOverlays
    /\ calls' = w.calls
    /\ log' = IF listening THEN w.log ELSE <<>>
    /\ exc' = w.exc
    /\ snap' = w.snap
    /\ trace' = IF listening THEN w.trace ELSE <<>>
    /\ listening' = listening
    /\ viewportSavers' = w.viewportSavers
    /\ uiManager' = w.uiManager
    /\ persistTimeout' = w.persistTimeout

Commit(w) == CommitControl(w) /\ UNCHANGED <<events, invoked, timerVars>>

\* ... and the initial condition that starts from one.
StartsAs(w, subscribed) ==
    /\ listening = subscribed
    /\ overlays = w.overlays
    /\ persist = w.persist
    /\ currentBaseId = w.currentBaseId
    /\ previousBaseId = w.previousBaseId
    /\ overlayStates = w.overlayStates
    /\ groupStates = w.groupStates
    /\ layerOrder = w.layerOrder
    /\ viewportState = w.viewportState
    /\ previousViewportState = w.previousViewportState
    /\ storage = w.storage
    /\ map = w.map
    /\ mapZoom = w.mapZoom
    /\ deckLayers = w.deckLayers
    /\ deckProps = w.deckProps
    /\ renderOnClickCache = w.renderOnClickCache
    /\ renderOnClickLoading = w.renderOnClickLoading
    /\ renderOnClickErrors = w.renderOnClickErrors
    /\ zoomFilteredOverlays = w.zoomFilteredOverlays
    /\ calls = w.calls
    /\ log = w.log
    /\ exc = w.exc
    /\ snap = w.snap
    /\ trace = w.trace
    /\ events = NoEvents
    /\ invoked = NoPublish
    /\ viewportSavers = w.viewportSavers
    /\ uiManager = w.uiManager
    /\ persistTimeout = w.persistTimeout
    /\ saveTimeout = NoTimeouts
    /\ viewportWrites = 0
    /\ sinceCamera = NoCamera

\* Sequence helpers (Array.prototype.filter / indexOf / map)
RECURSIVE SelectIds(_, _)
SelectIds(s, keep) ==
    IF s = <<>> THEN <<>>
    ELSE IF Head(s) \in keep THEN <<Head(s)>> \o SelectIds(Tail(s), keep)
         ELSE SelectIds(Tail(s), keep)

Range(s) == {s[i] : i \in DOMAIN s}

\* delete obj[k], and a variant that leaves the entry
RemoveKeyKept(f, k) == f
RemoveKey(f, k) == [x \in DOMAIN f \ {k} |-> f[x]]
SetKey(f, k, v) == [x \in DOMAIN f \cup {k} |-> IF x = k THEN v ELSE f[x]]

-----------------------------------------------------------------------------
\* Configuration

BaseStyles ==
    <<[id |-> "b1", strategy |-> "setStyle", style |-> "s1"],
      [id |-> "b2", strategy |-> "setStyle", style |-> "s2"],
      [id |-> "b3", strategy |-> "toggleBackground", style |-> "s3"]>>

BaseIds == {BaseStyles[i].id : i \in DOMAIN BaseStyles}

\* options.overlays.find(o => o.id === id) and .filter(o => o.group === g)
OverlayIdsOf(w) == {w.overlays[i].id : i \in DOMAIN w.overlays}

FindOverlay(w, id) ==
    LET idx == {i \in DOMAIN w.overlays : w.overlays[i].id = id}
    IN  w.overlays[CHOOSE i \in idx : \A j \in idx : i <= j]

RECURSIVE GroupMembers(_, _)
GroupMembers(ovs, g) ==
    IF ovs = <<>> THEN <<>>
    ELSE IF Head(ovs).group = g THEN <<Head(ovs).id>> \o GroupMembers(Tail(ovs), g)
         ELSE GroupMembers(Tail(ovs), g)

-----------------------------------------------------------------------------
\* EventEmitter and StateStore

emit(w, ev) == [w EXCEPT !.log = Append(@, ev)]

getState(w) ==
    [baseId |-> w.currentBaseId,
     overlays |-> w.overlayStates,
     groups |-> w.groupStates,
     layerOrder |-> w.layerOrder,
     viewport |-> w.viewportState]

\* variant: the exception of localStorage.setItem reaching the setter
_persistStateThrows(w) ==
    IF ~w.persist THEN w
    ELSE IF w.storage = StorageDown THEN [w EXCEPT !.exc = TRUE]
    ELSE [w EXCEPT !.storage = getState(w),
                   !.log = Append(@, [type |-> "persist", record |-> getState(w)])]

\* setItem throwing is caught and logged: nothing is written
_persistState(w) ==
    IF ~w.persist THEN w
    ELSE IF w.storage = StorageDown THEN w
    ELSE [w EXCEPT !.storage = getState(w),
                   !.log = Append(@, [type |-> "persist", record |-> getState(w)])]

_removeFromLayerOrder(order, overlayId) ==
    IF \E i \in DOMAIN order : order[i] = overlayId
    THEN LET idx == CHOOSE i \in DOMAIN order :
                        /\ order[i] = overlayId
                        /\ \A j \in DOMAIN order : order[j] = overlayId => i <= j
         IN  SubSeq(order, 1, idx - 1) \o SubSeq(order, idx + 1, Len(order))
    ELSE order

\* variant: the id put at the bottom of the order
_addToLayerOrderBottom(order, overlayId) ==
    <<overlayId>> \o _removeFromLayerOrder(order, overlayId)

_addToLayerOrder(order, overlayId) ==
    Append(_removeFromLayerOrder(order, overlayId), overlayId)

\* this.emit('change', this.getState())
emitChange(w) == emit(w, [type |-> "change", state |-> getState(w)])

\* setBase announcing the aggregate change before the base change
setBaseChangeFirst(w, baseId) ==
    LET announce(w2) == emit(w2, [type |-> "basechange", baseId |-> baseId,
                                  previousBaseId |-> w2.previousBaseId])
    IN  announce(emitChange(_persistState(
            [w EXCEPT !.previousBaseId = w.currentBaseId, !.currentBaseId = baseId])))

setBase(w, baseId) ==
    LET announce(w2) == emit(w2, [type |-> "basechange", baseId |-> baseId,
                                  previousBaseId |-> w2.previousBaseId])
    IN  emitChange(announce(_persistState(
            [w EXCEPT !.previousBaseId = w.currentBaseId, !.currentBaseId = baseId])))

\* Object.assign(record, state) for records {visible, opacity}
Assign(rec, state) ==
    [visible |-> IF "visible" \in DOMAIN state THEN state.visible ELSE rec.visible,
     opacity |-> IF "opacity" \in DOMAIN state THEN state.opacity ELSE rec.opacity]

\* setOverlay of an id without an entry throws at Object.assign(undefined, ...)
setOverlay(w, overlayId, state) ==
    IF overlayId \notin DOMAIN w.overlayStates THEN [w EXCEPT !.exc = TRUE]
    ELSE
    LET previousState == w.overlayStates[overlayId]
        order == IF "visible" \in DOMAIN state
                 THEN IF state.visible /\ ~previousState.visible
                      THEN _addToLayerOrder(w.layerOrder, overlayId)
                      ELSE IF ~state.visible /\ previousState.visible
                           THEN _removeFromLayerOrder(w.layerOrder, overlayId)
                           ELSE w.layerOrder
                 ELSE w.layerOrder
        announce(w2) == emit(w2, [type |-> "overlaychange", id |-> overlayId,
                                  visible |-> w2.overlayStates[overlayId].visible,
                                  opacity |-> w2.overlayStates[overlayId].opacity,
                                  previousVisible |-> previousState.visible,
                                  previousOpacity |-> previousState.opacity])
    IN  emitChange(announce(_persistState(
            [w EXCEPT !.overlayStates[overlayId] = Assign(@, state),
                      !.layerOrder = order])))

\* variant: the group's visible flag handed down to its member overlays
setGroupCascade(w, groupId, state) ==
    IF groupId \notin DOMAIN w.groupStates THEN [w EXCEPT !.exc = TRUE]
    ELSE emitChange(_persistState(
             [w EXCEPT !.groupStates[groupId] = Assign(@, state),
                       !.overlayStates =
                           [id \in DOMAIN @ |->
                               IF FindOverlay(w, id).group = groupId
                               THEN Assign(@[id], state) ELSE @[id]]]))

setGroup(w, groupId, state) ==
    IF groupId \notin DOMAIN w.groupStates THEN [w EXCEPT !.exc = TRUE]
    ELSE
    LET announce(w2) == emit(w2, [type |-> "overlaygroupchange", groupId |-> groupId,
                                  visible |-> w2.groupStates[groupId].visible,
                                  opacity |-> w2.groupStates[groupId].opacity,
                                  overlays |-> GroupMembers(w2.overlays, groupId)])
    IN  emitChange(announce(_persistState(
            [w EXCEPT !.groupStates[groupId] = Assign(@, state)])))

\* variant: the passed fields dropped
MergeViewportKept(vs, viewport) == vs

\* only the fields passed (!== undefined) are written
MergeViewport(vs, viewport) ==
    [center |-> IF "center" \in DOMAIN viewport THEN viewport.center ELSE vs.center,
     zoom |-> IF "zoom" \in DOMAIN viewport THEN viewport.zoom ELSE vs.zoom,
     bearing |-> IF "bearing" \in DOMAIN viewport THEN viewport.bearing ELSE vs.bearing,
     pitch |-> IF "pitch" \in DOMAIN viewport THEN viewport.pitch ELSE vs.pitch]

setViewport(w, viewport) ==
    LET announce(w2) == emit(w2, [type |-> "viewportchange", viewport |-> w2.viewportState,
                                  previousViewport |-> w2.previousViewportState])
    IN  emitChange(announce(_persistState(
            [w EXCEPT !.previousViewportState = w.viewportState,
                      !.viewportState = MergeViewport(w.viewportState, viewport)])))

\* setState: newState has the optional fields baseId, overlays, groups and
\* viewport; overlays and groups are the entries of the passed objects in key
\* order, <<[id, state]>>.
RECURSIVE SetOverlayEntries(_, _)
SetOverlayEntries(w, entries) ==
    IF entries = <<>> \/ w.exc THEN w
    ELSE LET e == Head(entries)
         IN  SetOverlayEntries(IF e.id \in DOMAIN w.overlayStates
                               THEN setOverlay(w, e.id, e.state) ELSE w,
                               Tail(entries))

RECURSIVE SetGroupEntries(_, _)
SetGroupEntries(w, entries) ==
    IF entries = <<>> \/ w.exc THEN w
    ELSE LET e == Head(entries)
         IN  SetGroupEntries(IF e.id \in DOMAIN w.groupStates
                             THEN setGroup(w, e.id, e.state) ELSE w,
                             Tail(entries))

setState(w, newState) ==
    LET Base(v) == IF "baseId" \in DOMAIN newState /\ newState.baseId # v.currentBaseId
                   THEN setBase(v, newState.baseId) ELSE v
        Overlays(v) == IF "overlays" \in DOMAIN newState
                       THEN SetOverlayEntries(v, newState.overlays) ELSE v
        Groups(v) == IF "groups" \in DOMAIN newState
                     THEN SetGroupEntries(v, newState.groups) ELSE v
        Viewport(v) == IF "viewport" \in DOMAIN newState
                       THEN setViewport(v, newState.viewport) ELSE v
    IN  Viewport(Groups(Overlays(Base(w))))

\* variant: the in-memory Layer Order wiped together with the record
clearMemoryAll(w) ==
    IF ~w.persist \/ w.storage = StorageDown THEN w
    ELSE emit([w EXCEPT !.storage = NoRecord, !.layerOrder = <<>>],
              [type |-> "memorycleared"])

\* clearMemory: nothing without a localStorage key or when removeItem throws;
\* otherwise one memorycleared event
clearMemory(w) ==
    IF ~w.persist \/ w.storage = StorageDown THEN w
    ELSE emit([w EXCEPT !.storage = NoRecord], [type |-> "memorycleared"])

-----------------------------------------------------------------------------
\* OverlayManager

\* Map.prototype.set / delete on deckLayers (insertion order is kept)
MapSet(layers, layer) ==
    IF \E i \in DOMAIN layers : layers[i].id = layer.id
    THEN [i \in DOMAIN layers |-> IF layers[i].id = layer.id THEN layer ELSE layers[i]]
    ELSE Append(layers, layer)

RECURSIVE MapDeleteAll(_, _)
MapDeleteAll(layers, ids) ==
    IF layers = <<>> THEN <<>>
    ELSE IF Head(layers).id \in ids THEN MapDeleteAll(Tail(layers), ids)
         ELSE <<Head(layers)>> \o MapDeleteAll(Tail(layers), ids)

MapHas(layers, id) == \E i \in DOMAIN layers : layers[i].id = id

\* variant: the upper bound taken as inclusive
_checkZoomConstraintsClosed(w, overlay) ==
    IF ~w.map THEN TRUE
    ELSE IF overlay.minZoomLevel # Undef /\ w.mapZoom < overlay.minZoomLevel THEN FALSE
    ELSE IF overlay.maxZoomLevel # Undef /\ w.mapZoom > overlay.maxZoomLevel THEN FALSE
    ELSE TRUE

_checkZoomConstraints(w, overlay) ==
    IF ~w.map THEN TRUE
    ELSE IF overlay.minZoomLevel # Undef /\ w.mapZoom < overlay.minZoomLevel THEN FALSE
    ELSE IF overlay.maxZoomLevel # Undef /\ w.mapZoom >= overlay.maxZoomLevel THEN FALSE
    ELSE TRUE

\* returns [w, visible]
_updateZoomFiltering(w, overlayId) ==
    IF overlayId \notin OverlayIdsOf(w) THEN [w |-> w, visible |-> TRUE]
    ELSE LET record(shouldBeVisible) ==
                 [w |-> emit([w EXCEPT !.zoomFilteredOverlays =
                                  IF shouldBeVisible THEN @ \ {overlayId}
                                  ELSE @ \cup {overlayId}],
                             [type |-> "zoomfilter", id |-> overlayId,
                              filtered |-> ~shouldBeVisible]),
                  visible |-> shouldBeVisible]
         IN  record(_checkZoomConstraints(w, FindOverlay(w, overlayId)))

\* new LayerClass({id, ...props}) with the recorded opacity when it is a number
_createDeckLayer(w, layerId, overlay) ==
    [id |-> layerId,
     opacity |-> IF overlay.id \in DOMAIN w.overlayStates
                 THEN w.overlayStates[overlay.id].opacity ELSE Undef]

\* layers of the overlays of layerOrder that declare deckLayers, then the rest
RECURSIVE OrderedLayerIds(_, _)
OrderedLayerIds(w, order) ==
    IF order = <<>> THEN <<>>
    ELSE LET id == Head(order)
             own == IF id \in OverlayIdsOf(w) /\ FindOverlay(w, id).hasDeckLayers
                    THEN SelectSeq(FindOverlay(w, id).deckLayers,
                                   LAMBDA l : MapHas(w.deckLayers, l))
                    ELSE <<>>
         IN  own \o OrderedLayerIds(w, Tail(order))

RECURSIVE LayerIdsOf(_)
LayerIdsOf(layers) ==
    IF layers = <<>> THEN <<>> ELSE <<Head(layers).id>> \o LayerIdsOf(Tail(layers))

_updateDeckLayers(w) ==
    IF ~w.map THEN w
    ELSE LET withRest(first) ==
                 first \o SelectSeq(LayerIdsOf(w.deckLayers), LAMBDA l : l \notin Range(first))
         IN  [w EXCEPT !.deckProps = withRest(OrderedLayerIds(w, w.layerOrder))]

RECURSIVE AttachLayers(_, _, _)
AttachLayers(w, defs, overlay) ==
    IF defs = <<>> THEN w
    ELSE AttachLayers([w EXCEPT !.deckLayers =
                          MapSet(@, _createDeckLayer(w, Head(defs), overlay))],
                      Tail(defs), overlay)

_showOverlayLayers(w, overlay) ==
    IF overlay.hasDeckLayers /\ w.map
    THEN _updateDeckLayers(AttachLayers(w, overlay.deckLayers, overlay))
    ELSE w

_hideOverlayLayers(w, overlay) ==
    IF overlay.hasDeckLayers
    THEN _updateDeckLayers([w EXCEPT !.deckLayers = MapDeleteAll(@, Range(overlay.deckLayers))])
    ELSE w

\* one pass of the loop of updateAllZoomFiltering
ZoomFilterOne(w, overlayId, overlay, shouldBeVisible, isCurrentlyFiltered) ==
    IF ~w.overlayStates[overlayId].visible THEN w
    ELSE IF shouldBeVisible /\ isCurrentlyFiltered
    THEN emit(_showOverlayLayers([w EXCEPT !.zoomFilteredOverlays = @ \ {overlayId}], overlay),
              [type |-> "zoomfilter", id |-> overlayId, filtered |-> FALSE])
    ELSE IF ~shouldBeVisible /\ ~isCurrentlyFiltered
    THEN emit(_hideOverlayLayers([w EXCEPT !.zoomFilteredOverlays = @ \cup {overlayId}], overlay),
              [type |-> "zoomfilter", id |-> overlayId, filtered |-> TRUE])
    ELSE w

RECURSIVE ZoomFilterEach(_, _)
ZoomFilterEach(w, ids) ==
    IF ids = <<>> THEN w
    ELSE ZoomFilterEach(
             ZoomFilterOne(w, Head(ids), FindOverlay(w, Head(ids)),
                           _checkZoomConstraints(w, FindOverlay(w, Head(ids))),
                           Head(ids) \in w.zoomFilteredOverlays),
             Tail(ids))

\* Object.keys(overlayStates) is the configuration order restricted to the
\* ids that have an entry (both are appended to and deleted from together)
updateAllZoomFiltering(w) ==
    ZoomFilterEach(w, SelectSeq(LayerIdsOf(w.overlays),
                                LAMBDA id : id \in DOMAIN w.overlayStates))

\* baseStyles.find(b => b.id === baseId) has strategy 'setStyle'
SetStyleBase(baseId) ==
    \E i \in DOMAIN BaseStyles :
        BaseStyles[i].id = baseId /\ BaseStyles[i].strategy = "setStyle"

\* OverlayManager.setBase hands the style to the map (map.setStyle or the
\* background toggle); it changes nothing the manager or the store records.
\* styleRequests counts the map.setStyle calls of the running handler.
OverlayManager_setBase(w, baseId) ==
    IF w.map /\ SetStyleBase(baseId) THEN [w EXCEPT !.styleRequests = @ + 1] ELSE w

\* The part of show() from the forced base style to the return value, run
\* with the overlay as show() holds it (deckLayers replaced by the cached
\* result for a deferred overlay).  Returns [w, result].
showTail(w, overlay, overlayId, isUserInteraction) ==
    LET shouldForceBase == isUserInteraction \/ overlay.forcedBaseLayerId # NoBase
        hasBearing == overlay.forcedBearing # Undef
        hasPitch == overlay.forcedPitch # Undef
        viewportChanges ==
            IF hasBearing /\ hasPitch
            THEN [bearing |-> overlay.forcedBearing, pitch |-> overlay.forcedPitch]
            ELSE IF hasBearing THEN [bearing |-> overlay.forcedBearing]
            ELSE [pitch |-> overlay.forcedPitch]
        forceBase(v) ==
            IF /\ shouldForceBase
               /\ overlay.forcedBaseLayerId # NoBase
               /\ overlay.forcedBaseLayerId \in BaseIds
               /\ v.currentBaseId # overlay.forcedBaseLayerId
            THEN setBase(OverlayManager_setBase(v, overlay.forcedBaseLayerId),
                         overlay.forcedBaseLayerId)
            ELSE v
        forceViewport(v) ==
            IF hasBearing \/ hasPitch THEN setViewport(v, viewportChanges) ELSE v
        attach(z) ==
            IF ~z.visible THEN [w |-> z.w, result |-> TRUE]
            ELSE IF overlay.hasDeckLayers /\ z.w.map
            THEN [w |-> emit(_updateDeckLayers(AttachLayers(z.w, overlay.deckLayers, overlay)),
                             [type |-> "success", id |-> overlayId]),
                  result |-> TRUE]
            ELSE [w |-> z.w, result |-> TRUE]
    IN  attach(_updateZoomFiltering(forceViewport(forceBase(w)), overlayId))

\* variants of the guard: none, and one that also refuses a recorded error
LoadGuardNever(w, overlayId) == FALSE
LoadGuardErrors(w, overlayId) ==
    overlayId \in w.renderOnClickLoading \cup w.renderOnClickErrors

\* if (this.renderOnClickLoading.has(overlayId)) return false
LoadGuard(w, overlayId) == overlayId \in w.renderOnClickLoading

\* show() up to its first suspension.  Returns [w, status]: status is
\* "true" / "false" when show() returned, "await" when it invoked the
\* loader and waits for it.
show(w, overlayId, isUserInteraction) ==
    IF overlayId \notin OverlayIdsOf(w) \/ ~w.map
    THEN [w |-> w, status |-> "false"]
    ELSE
    LET overlay == FindOverlay(w, overlayId)
        done(r) == [w |-> r.w, status |-> IF r.result THEN "true" ELSE "false"]
    IN  IF overlay.renderOnClick /\ overlayId \notin DOMAIN w.renderOnClickCache
        THEN IF LoadGuard(w, overlayId)
             THEN [w |-> w, status |-> "false"]
             ELSE [w |-> emit([w EXCEPT
                                 !.renderOnClickErrors = @ \ {overlayId},
                                 !.renderOnClickLoading = @ \cup {overlayId}],
                              [type |-> "loading", id |-> overlayId]),
                   status |-> "await"]
        ELSE done(showTail(w,
                           IF overlay.renderOnClick
                           THEN [overlay EXCEPT !.hasDeckLayers = TRUE,
                                                !.deckLayers = w.renderOnClickCache[overlayId]]
                           ELSE overlay,
                           overlayId, isUserInteraction))

\* show() from the point where the loader's promise settles.  outcome is
\* "ok" (a result with deckLayers), "malformed" (a result without) or
\* "throw" (the loader rejected with Error('boom')).  Returns [w, result].
ErrorMessage(outcome) ==
    IF outcome = "throw" THEN "boom" ELSE "renderOnClick must return {deckLayers}"

\* variant: a failed load leaves the id marked as loading
showResumeMarked(w, overlay, isUserInteraction, outcome) ==
    IF outcome = "ok"
    THEN showTail(emit([w EXCEPT
                           !.renderOnClickCache = SetKey(@, overlay.id, overlay.loads),
                           !.renderOnClickLoading = @ \ {overlay.id}],
                       [type |-> "success", id |-> overlay.id]),
                  [overlay EXCEPT !.hasDeckLayers = TRUE, !.deckLayers = overlay.loads],
                  overlay.id, isUserInteraction)
    ELSE [w |-> emit([w EXCEPT !.renderOnClickErrors = @ \cup {overlay.id}],
                     [type |-> "error", id |-> overlay.id, error |-> ErrorMessage(outcome)]),
          result |-> FALSE]

showResume(w, overlay, isUserInteraction, outcome) ==
    IF outcome = "ok"
    THEN LET w1 == emit([w EXCEPT
                            !.renderOnClickCache = SetKey(@, overlay.id, overlay.loads),
                            !.renderOnClickLoading = @ \ {overlay.id}],
                        [type |-> "success", id |-> overlay.id])
         IN  showTail(w1, [overlay EXCEPT !.hasDeckLayers = TRUE,
                                          !.deckLayers = overlay.loads],
                      overlay.id, isUserInteraction)
    ELSE [w |-> emit([w EXCEPT !.renderOnClickLoading = @ \ {overlay.id},
                               !.renderOnClickErrors = @ \cup {overlay.id}],
                     [type |-> "error", id |-> overlay.id, error |-> ErrorMessage(outcome)]),
          result |-> FALSE]

\* variant: hiding also forgets what the loader returned
hideEvicting(w, overlayId) ==
    [w EXCEPT !.renderOnClickCache = RemoveKey(@, overlayId)]

hide(w, overlayId) ==
    IF overlayId \notin OverlayIdsOf(w) \/ ~w.map THEN w
    ELSE
    LET overlay == FindOverlay(w, overlayId)
        own(v) == IF overlay.hasDeckLayers
                  THEN _updateDeckLayers([v EXCEPT !.deckLayers =
                                             MapDeleteAll(@, Range(overlay.deckLayers))])
                  ELSE v
        loaded(v) == IF overlay.renderOnClick /\ overlayId \in DOMAIN v.renderOnClickCache
                     THEN _updateDeckLayers([v EXCEPT !.deckLayers =
                                MapDeleteAll(@, Range(v.renderOnClickCache[overlayId]))])
                     ELSE v
    IN  loaded(own([w EXCEPT !.zoomFilteredOverlays = @ \ {overlayId}]))

\* layer.clone({opacity}) for the attached layers among ids
CloneOpacity(layers, ids, opacity) ==
    [i \in DOMAIN layers |->
        IF layers[i].id \in ids THEN [layers[i] EXCEPT !.opacity = opacity] ELSE layers[i]]

applyOpacity(w, overlayId, opacity) ==
    IF overlayId \notin OverlayIdsOf(w) \/ ~w.map THEN w
    ELSE
    LET overlay == FindOverlay(w, overlayId)
        own(v) == IF overlay.hasDeckLayers
                  THEN _updateDeckLayers([v EXCEPT !.deckLayers =
                                             CloneOpacity(@, Range(overlay.deckLayers), opacity)])
                  ELSE v
        loaded(v) == IF overlay.renderOnClick /\ overlayId \in DOMAIN v.renderOnClickCache
                     THEN _updateDeckLayers([v EXCEPT !.deckLayers =
                                CloneOpacity(@, Range(v.renderOnClickCache[overlayId]), opacity)])
                     ELSE v
    IN  loaded(own(w))

RECURSIVE HideEach(_, _)
HideEach(w, ids) ==
    IF ids = <<>> THEN w ELSE HideEach(hide(w, Head(ids)), Tail(ids))

OverlayManager_removeAllOverlays(w) ==
    IF ~w.map THEN w
    ELSE LET w1 == HideEach(w, LayerIdsOf(w.overlays))
             w2 == _updateDeckLayers([w1 EXCEPT !.deckLayers = <<>>])
         IN  [w2 EXCEPT !.renderOnClickCache = <<>>,
                        !.renderOnClickLoading = {},
                        !.renderOnClickErrors = {},
                        !.zoomFilteredOverlays = {}]

-----------------------------------------------------------------------------
\* StateStore construction and restoration

DefaultViewport == [center |-> NoCenter, zoom |-> NullNum, bearing |-> 0, pitch |-> 0]

\* x || 1.0, x || null and x || 0 on numbers: 0, null and undefined are falsy
OrDefault(x, d) == IF x = 0 \/ x = NullNum \/ x = Undef THEN d ELSE x

RECURSIVE _initializeOverlayStates(_, _, _)
_initializeOverlayStates(ovs, os, gs) ==
    IF ovs = <<>> THEN [overlayStates |-> os, groupStates |-> gs]
    ELSE LET overlay == Head(ovs)
             os1 == SetKey(os, overlay.id,
                           [visible |-> overlay.defaultVisible,
                            opacity |-> OrDefault(overlay.defaultOpacity, OpacityScale)])
             gs1 == IF overlay.group # NoGroup /\ overlay.group \notin DOMAIN gs
                    THEN SetKey(gs, overlay.group,
                                [visible |-> overlay.defaultVisible, opacity |-> OpacityScale])
                    ELSE gs
         IN  _initializeOverlayStates(Tail(ovs), os1, gs1)

\* variant: every persisted key restored
RestoreEntriesAll(current, persisted) ==
    [k \in DOMAIN current \cup DOMAIN persisted |->
        IF k \in DOMAIN persisted
        THEN IF k \in DOMAIN current THEN Assign(current[k], persisted[k]) ELSE persisted[k]
        ELSE current[k]]

\* Object.assign over the keys of the persisted map that are still known
RestoreEntries(current, persisted) ==
    [k \in DOMAIN current |->
        IF k \in DOMAIN persisted THEN Assign(current[k], persisted[k]) ELSE current[k]]

\* a persisted group without an entry that still has overlays is reinitialised
RestoreGroups(ovs, current, persisted) ==
    LET revived == {g \in DOMAIN persisted \ DOMAIN current : GroupMembers(ovs, g) # <<>>}
    IN  [g \in DOMAIN current \cup revived |->
            IF g \in DOMAIN current
            THEN IF g \in DOMAIN persisted THEN Assign(current[g], persisted[g]) ELSE current[g]
            ELSE Assign([visible |-> FALSE, opacity |-> OpacityScale], persisted[g])]

\* getItem or JSON.parse throwing is caught before anything is restored
_loadPersistedState(w) ==
    IF ~w.persist \/ w.storage = NoRecord THEN w
    ELSE IF w.storage \in {StorageDown, CorruptRecord} THEN w
    ELSE
    LET persistedState == w.storage
        os == RestoreEntries(w.overlayStates, persistedState.overlays)
    IN  [w EXCEPT
            !.currentBaseId = IF persistedState.baseId # NoBase /\ persistedState.baseId \in BaseIds
                              THEN persistedState.baseId ELSE @,
            !.overlayStates = os,
            !.groupStates = RestoreGroups(w.overlays, @, persistedState.groups),
            !.layerOrder = SelectSeq(persistedState.layerOrder, LAMBDA id : id \in DOMAIN os),
            !.viewportState =
                [center |-> persistedState.viewport.center,
                 zoom |-> OrDefault(persistedState.viewport.zoom, NullNum),
                 bearing |-> OrDefault(persistedState.viewport.bearing, 0),
                 pitch |-> OrDefault(persistedState.viewport.pitch, 0)]]

\* new LayersControl(options): the three objects right after construction
DefaultBaseId == BaseStyles[1].id

Construct(ovs, persistOn, stored) ==
    LET init == _initializeOverlayStates(ovs, <<>>, <<>>)
    IN  _loadPersistedState(
            [overlays |-> ovs, persist |-> persistOn,
             currentBaseId |-> DefaultBaseId, previousBaseId |-> NoBase,
             overlayStates |-> init.overlayStates, groupStates |-> init.groupStates,
             layerOrder |-> <<>>, viewportState |-> DefaultViewport,
             previousViewportState |-> DefaultViewport, storage |-> stored,
             map |-> FALSE, mapZoom |-> NullNum, deckLayers |-> <<>>,
             deckProps |-> <<>>, renderOnClickCache |-> <<>>,
             renderOnClickLoading |-> {}, renderOnClickErrors |-> {},
             zoomFilteredOverlays |-> {}, calls |-> EmptyBag, log |-> <<>>,
             exc |-> FALSE, snap |-> NoSnap, trace |-> <<>>,
             viewportSavers |-> 0, uiManager |-> NoUI,
             persistTimeout |-> FALSE, styleRequests |-> 0])

-----------------------------------------------------------------------------
\* LayersControl (facade)

\* An overlay configuration as the options carry it.  deckLayers are the ids
\* of the declared layer definitions (hasDeckLayers: the field is defined);
\* loads are the ids of the layers the renderOnClick loader resolves with.
Overlay(id, group, deferred, layerIds, defaultVisible) ==
    [id |-> id, group |-> group, renderOnClick |-> deferred,
     hasDeckLayers |-> ~deferred,
     deckLayers |-> IF deferred THEN <<>> ELSE layerIds,
     loads |-> IF deferred THEN layerIds ELSE <<>>,
     defaultVisible |-> defaultVisible, defaultOpacity |-> Undef,
     minZoomLevel |-> Undef, maxZoomLevel |-> Undef,
     forcedBaseLayerId |-> NoBase, forcedBearing |-> Undef, forcedPitch |-> Undef]

NoOverlay == Overlay("none", NoGroup, FALSE, <<>>, FALSE)

\* A suspended async call.  kind: "show" (a show() nobody awaits), "toggle"
\* (toggleOverlay), "group" (toggleOverlayGroup).  stage: "loading" (inside
\* show(), waiting for the loader; overlay is the configuration show()
\* holds) or "returned" (show() returned result, the caller's continuation
\* has not run yet).  rest: the group members not yet completed, the one
\* being shown first.
Call(kind, id, overlay, user, stage, result, newVisible, groupId, rest) ==
    [kind |-> kind, id |-> id, overlay |-> overlay, user |-> user,
     stage |-> stage, result |-> result, newVisible |-> newVisible,
     groupId |-> groupId, rest |-> rest]

AddCall(w, c) == [w EXCEPT !.calls = @ (+) SetToBag({c})]
DropCall(w, c) == [w EXCEPT !.calls = @ (-) SetToBag({c})]

\* visible argument of the toggles: "true", "false" or "null" (flip)
NewVisible(visible, current) ==
    IF visible = "null" THEN ~current.visible ELSE visible = "true"

\* toggleOverlay up to its first suspension.  A continuation that would only
\* see success = false does nothing and is not kept.
toggleOverlay(w, overlayId, visible, isUserInteraction) ==
    IF overlayId \notin OverlayIdsOf(w) THEN w
    ELSE
    LET newVisible == NewVisible(visible, w.overlayStates[overlayId])
        c(stage) == Call("toggle", overlayId,
                         IF stage = "loading" THEN FindOverlay(w, overlayId) ELSE NoOverlay,
                         isUserInteraction, stage, stage = "returned", newVisible,
                         NoGroup, <<>>)
        await(r) == IF r.status = "await" THEN AddCall(r.w, c("loading"))
                    ELSE IF r.status = "true" THEN AddCall(r.w, c("returned"))
                    ELSE r.w
    IN  IF newVisible
        THEN await(show(w, overlayId, isUserInteraction))
        ELSE setOverlay(hide(w, overlayId), overlayId, [visible |-> FALSE])

\* the continuation of toggleOverlay after `await show()`
toggleOverlayResume(w, c) ==
    IF ~c.result THEN DropCall(w, c)
    ELSE setOverlay(DropCall(w, c), c.id, [visible |-> c.newVisible])

RECURSIVE HideGroupMembers(_, _)
HideGroupMembers(w, ids) ==
    IF ids = <<>> \/ w.exc THEN w
    ELSE HideGroupMembers(setOverlay(hide(w, Head(ids)), Head(ids), [visible |-> FALSE]),
                          Tail(ids))

\* one pass of the loop of toggleOverlayGroup(…, true): show() of the first
\* member of rest, up to the suspension of the loop at `await`
groupShowNext(w, groupId, rest, isUserInteraction) ==
    LET overlayId == Head(rest)
        await(r) ==
            IF r.status = "await"
            THEN AddCall(r.w, Call("group", overlayId, FindOverlay(w, overlayId),
                                   isUserInteraction, "loading", FALSE, TRUE, groupId, rest))
            ELSE AddCall(r.w, Call("group", overlayId, NoOverlay, isUserInteraction,
                                   "returned", r.status = "true", TRUE, groupId, rest))
    IN  await(show(w, overlayId, isUserInteraction))

toggleOverlayGroup(w, groupId, visible, isUserInteraction) ==
    LET groupOverlays == GroupMembers(w.overlays, groupId)
        newVisible == NewVisible(visible, w.groupStates[groupId])
        flag(v) == IF v.exc THEN v ELSE setGroup(v, groupId, [visible |-> FALSE])
    IN  IF groupOverlays = <<>> THEN w
        ELSE IF newVisible
        THEN groupShowNext(w, groupId, groupOverlays, isUserInteraction)
        ELSE flag(HideGroupMembers(w, groupOverlays))

\* the continuation of toggleOverlayGroup after `await show()`: record the
\* member, then the next pass of the loop or, after the last one, the group
\* (a variant records the member only when its show succeeded)
GroupRecordIfShown(w, c) ==
    IF c.result THEN setOverlay(w, c.id, [visible |-> c.newVisible]) ELSE w

GroupRecord(w, c) == setOverlay(w, c.id, [visible |-> c.newVisible])

toggleOverlayGroupResume(w, c) ==
    LET rest == Tail(c.rest)
        next(v) == IF v.exc THEN v
                   ELSE IF rest = <<>> THEN setGroup(v, c.groupId, [visible |-> c.newVisible])
                   ELSE groupShowNext(v, c.groupId, rest, c.user)
    IN  next(GroupRecord(DropCall(w, c), c))

\* the loader of a suspended show() settles
loaderSettles(w, c, outcome) ==
    LET return(r) ==
            IF c.kind = "show" THEN r.w
            ELSE IF c.kind = "toggle"
            THEN IF r.result
                 THEN AddCall(r.w, [c EXCEPT !.stage = "returned", !.result = TRUE,
                                             !.overlay = NoOverlay])
                 ELSE r.w
            ELSE AddCall(r.w, [c EXCEPT !.stage = "returned", !.result = r.result,
                                        !.overlay = NoOverlay])
    IN  return(showResume(DropCall(w, c), c.overlay, c.user, outcome))

OpacityInRange(opacity) == ~(opacity < 0 \/ opacity > OpacityScale)

setOverlayOpacity(w, overlayId, opacity) ==
    IF ~OpacityInRange(opacity) THEN w
    ELSE IF overlayId \notin OverlayIdsOf(w) THEN w
    ELSE setOverlay(applyOpacity(w, overlayId, opacity), overlayId, [opacity |-> opacity])

RECURSIVE OpacityEach(_, _, _)
OpacityEach(w, ids, opacity) ==
    IF ids = <<>> \/ w.exc THEN w
    ELSE OpacityEach(setOverlay(applyOpacity(w, Head(ids), opacity), Head(ids),
                                [opacity |-> opacity]),
                     Tail(ids), opacity)

setGroupOpacity(w, groupId, opacity) ==
    LET groupOverlays == GroupMembers(w.overlays, groupId)
        flag(v) == IF v.exc THEN v ELSE setGroup(v, groupId, [opacity |-> opacity])
    IN  IF ~OpacityInRange(opacity) THEN w
        ELSE IF groupOverlays = <<>> THEN w
        ELSE flag(OpacityEach(w, groupOverlays, opacity))

\* a record of the snapshot stops being the Store's object when the Store
\* drops its entry: the caller then holds the only reference to it
DetachSnap(sn, os, ids) ==
    IF sn = NoSnap THEN sn
    ELSE [sn EXCEPT !.overlays =
            [k \in DOMAIN sn.overlays |->
                IF k \in ids /\ sn.overlays[k].ref
                THEN [ref |-> FALSE, visible |-> os[k].visible, opacity |-> os[k].opacity]
                ELSE sn.overlays[k]]]

\* an overlayManager.show() nobody awaits (addOverlay, _applyInitialState)
showUnawaited(w, overlayId) ==
    LET await(r) ==
            IF r.status = "await"
            THEN AddCall(r.w, Call("show", overlayId, FindOverlay(w, overlayId), FALSE,
                                   "loading", FALSE, TRUE, NoGroup, <<>>))
            ELSE r.w
    IN  await(show(w, overlayId, FALSE))

addOverlay(w, overlay) ==
    IF overlay.id \in OverlayIdsOf(w) THEN w
    ELSE
    LET shown(v) == IF overlay.defaultVisible
                    THEN setOverlay(showUnawaited(v, overlay.id), overlay.id,
                                    [visible |-> TRUE])
                    ELSE v
    IN  shown([w EXCEPT
                  !.overlays = Append(@, overlay),
                  !.overlayStates = SetKey(@, overlay.id,
                      [visible |-> overlay.defaultVisible,
                       opacity |-> IF overlay.defaultOpacity # Undef
                                   THEN overlay.defaultOpacity ELSE OpacityScale]),
                  !.groupStates =
                      IF overlay.group # NoGroup /\ overlay.group \notin DOMAIN @
                      THEN SetKey(@, overlay.group,
                                  [visible |-> overlay.defaultVisible, opacity |-> OpacityScale])
                      ELSE @])

removeOverlay(w, overlayId) ==
    IF overlayId \notin OverlayIdsOf(w) THEN w
    ELSE
    LET overlayIndex == CHOOSE i \in DOMAIN w.overlays :
                            /\ w.overlays[i].id = overlayId
                            /\ \A j \in DOMAIN w.overlays : w.overlays[j].id = overlayId => i <= j
        splice(v) == _persistState([v EXCEPT
            !.overlays = SubSeq(@, 1, overlayIndex - 1) \o SubSeq(@, overlayIndex + 1, Len(@)),
            !.overlayStates = RemoveKey(@, overlayId),
            !.snap = DetachSnap(@, w.overlayStates, {overlayId})])
    IN  splice(IF overlayId \in DOMAIN w.overlayStates /\ w.overlayStates[overlayId].visible
               THEN hide(w, overlayId) ELSE w)

removeAllOverlays(w) ==
    IF w.overlays = <<>> THEN w
    ELSE LET overlayIds == OverlayIdsOf(w)
             clear(v) == _persistState([v EXCEPT
                 !.overlays = <<>>,
                 !.overlayStates = [k \in DOMAIN @ \ overlayIds |-> @[k]],
                 !.snap = DetachSnap(@, w.overlayStates, overlayIds \cap DOMAIN w.overlayStates)])
         IN  clear(OverlayManager_removeAllOverlays(w))

LayersControl_setBase(w, baseId) ==
    IF baseId \notin BaseIds THEN w
    ELSE setBase(OverlayManager_setBase(w, baseId), baseId)

LayersControl_setState(w, newState) == setState(w, newState)

\* the 'retryoverlay' handler of _wireEvents
retryoverlay(w, overlayId) ==
    toggleOverlay([w EXCEPT !.renderOnClickCache = RemoveKey(@, overlayId),
                            !.renderOnClickErrors = @ \ {overlayId}],
                  overlayId, "true", TRUE)

\* one pass of a forEach of _applyInitialState
ApplyOverlay(w, overlayId, overlayState) ==
    LET opacity(v) == IF overlayState.opacity # OpacityScale
                      THEN applyOpacity(v, overlayId, overlayState.opacity) ELSE v
    IN  opacity(IF overlayState.visible THEN showUnawaited(w, overlayId) ELSE w)

RECURSIVE ApplyOverlays(_, _)
ApplyOverlays(w, ids) ==
    IF ids = <<>> THEN w
    ELSE ApplyOverlays(IF Head(ids) \in DOMAIN w.overlayStates
                       THEN ApplyOverlay(w, Head(ids), w.overlayStates[Head(ids)])
                       ELSE w,
                       Tail(ids))

\* One more debouncedSave closure, with a saveTimeout of its own, is
\* registered for moveend, zoomend, rotateend and pitchend.
_setupViewportPersistence(w) ==
    IF ~w.map THEN w ELSE [w EXCEPT !.viewportSavers = @ + 1]

\* jumpTo the recorded viewport, the base style, the visible overlays in
\* Layer Order and then the others in key order, the zoom filter, the
\* viewport listeners
_applyInitialState(w) ==
    IF ~w.map THEN w
    ELSE
    LET others(v) == ApplyOverlays(v,
                        SelectSeq(LayerIdsOf(v.overlays),
                                  LAMBDA id : id \in DOMAIN v.overlayStates
                                              /\ id \notin Range(w.layerOrder)))
        ordered(v) == ApplyOverlays(v, v.layerOrder)
        base(v) == OverlayManager_setBase(v, v.currentBaseId)
    IN  _setupViewportPersistence(updateAllZoomFiltering(others(ordered(base(
            [w EXCEPT !.mapZoom = IF w.viewportState.zoom # NullNum
                                  THEN w.viewportState.zoom ELSE @])))))

\* onAdd(map) with the map at the given zoom
onAdd(w, zoom) == _applyInitialState([w EXCEPT !.map = TRUE, !.mapZoom = zoom])

-----------------------------------------------------------------------------
\* History of the group toggle in progress: its start, then the
\* overlaychange and overlaygroupchange events its steps emit.

RECURSIVE TraceOf(_)
TraceOf(evs) ==
    IF evs = <<>> THEN <<>>
    ELSE LET e == Head(evs)
         IN  (IF e.type = "overlaychange"
              THEN <<[type |-> e.type, id |-> e.id, visible |-> e.visible, overlays |-> <<>>]>>
              ELSE IF e.type = "overlaygroupchange"
              THEN <<[type |-> e.type, id |-> e.groupId, visible |-> e.visible,
                      overlays |-> e.overlays]>>
              ELSE <<>>) \o TraceOf(Tail(evs))

Fresh(w) == [w EXCEPT !.trace = <<>>]
Traced(w) == [w EXCEPT !.trace = @ \o TraceOf(w.log)]
TracedFor(w, c) == IF c.kind = "group" THEN Traced(w) ELSE w
Started(w, start) == [w EXCEPT !.trace = <<start>> \o TraceOf(w.log)]

-----------------------------------------------------------------------------
\* Bounds and inputs

MaxCalls == 2

OvA == Overlay("A", "G", FALSE, <<"a1">>, FALSE)
OvB == Overlay("B", "G", TRUE, <<"b1">>, FALSE)
OvC == Overlay("C", NoGroup, TRUE, <<"c1">>, TRUE)

Pool == {OvA, OvB, OvC}
PoolIds == {o.id : o \in Pool}
AddPool == {OvA, OvC}
GroupIds == {"G"}
VisibleArgs == {"true", "false", "null"}
Outcomes == {"ok", "malformed", "throw"}
OpacityArgs == {5, 15}
AttachZooms == {7}

Step(w) == BagCardinality(w.calls) <= MaxCalls /\ Commit(w)

-----------------------------------------------------------------------------
\* Actions

Attach ==
    /\ ~map
    /\ \E z \in AttachZooms : Step(Fresh(onAdd(World, z)))

ToggleOverlay ==
    \E id \in PoolIds, v \in VisibleArgs : Step(Fresh(toggleOverlay(World, id, v, FALSE)))

ToggleOverlayResume ==
    \E c \in BagToSet(calls) :
        /\ c.kind = "toggle" /\ c.stage = "returned"
        /\ Step(toggleOverlayResume(World, c))

ToggleOverlayGroup ==
    \E g \in GroupIds, v \in VisibleArgs :
        /\ g \in DOMAIN groupStates
        /\ Step(Started(toggleOverlayGroup(World, g, v, FALSE),
                        [type |-> "toggleOverlayGroup", id |-> g,
                         visible |-> NewVisible(v, groupStates[g]),
                         overlays |-> GroupMembers(overlays, g)]))

ToggleOverlayGroupResume ==
    \E c \in BagToSet(calls) :
        /\ c.kind = "group" /\ c.stage = "returned"
        /\ Step(Traced(toggleOverlayGroupResume(World, c)))

LoaderSettles ==
    \E c \in BagToSet(calls), outcome \in Outcomes :
        /\ c.stage = "loading"
        /\ Step(TracedFor(loaderSettles(World, c, outcome), c))

AddOverlay ==
    \E o \in AddPool : o.id \notin OverlayIdsOf(World) /\ Step(Fresh(addOverlay(World, o)))

RemoveOverlay ==
    \E id \in PoolIds : id \in OverlayIdsOf(World) /\ Step(Fresh(removeOverlay(World, id)))

RemoveAllOverlays ==
    overlays # <<>> /\ Step(Fresh(removeAllOverlays(World)))

SetOverlayOpacity ==
    \E id \in PoolIds, x \in OpacityArgs : Step(Fresh(setOverlayOpacity(World, id, x)))

SetGroupOpacity ==
    \E g \in GroupIds, x \in OpacityArgs : Step(Fresh(setGroupOpacity(World, g, x)))

SetStateVisible ==
    \E id \in PoolIds, v \in BOOLEAN :
        Step(Fresh(LayersControl_setState(World,
                [overlays |-> <<[id |-> id, state |-> [visible |-> v]]>>])))

SetStateOpacity ==
    \E id \in PoolIds, x \in OpacityArgs :
        Step(Fresh(LayersControl_setState(World,
                [overlays |-> <<[id |-> id, state |-> [opacity |-> x]]>>])))

Retry ==
    \E id \in PoolIds :
        /\ map /\ id \in OverlayIdsOf(World)
        /\ Step(Fresh(retryoverlay(World, id)))

\* Load lifecycle on a fixed configuration
InitLoad == StartsAs(Construct(<<OvA, OvB>>, TRUE, NoRecord), TRUE)

NextLoad ==
    \/ Attach
    \/ ToggleOverlay
    \/ ToggleOverlayResume
    \/ ToggleOverlayGroup
    \/ ToggleOverlayGroupResume
    \/ LoaderSettles
    \/ Retry

SpecLoad == InitLoad /\ [][NextLoad]_vars

\* Configuration changes and visibility setters
InitConfig == StartsAs(Construct(<<OvA>>, FALSE, NoRecord), FALSE)

NextConfig ==
    \/ Attach
    \/ ToggleOverlay
    \/ ToggleOverlayResume
    \/ ToggleOverlayGroup
    \/ ToggleOverlayGroupResume
    \/ LoaderSettles
    \/ AddOverlay
    \/ RemoveOverlay
    \/ RemoveAllOverlays
    \/ SetStateVisible

SpecConfig == InitConfig /\ [][NextConfig]_vars

\* Opacity on a fixed configuration
InitOpacity == StartsAs(Construct(<<OvA, OvB>>, FALSE, NoRecord), FALSE)

NextOpacity ==
    \/ Attach
    \/ ToggleOverlay
    \/ ToggleOverlayResume
    \/ LoaderSettles
    \/ SetOverlayOpacity
    \/ SetGroupOpacity
    \/ SetStateOpacity

SpecOpacity == InitOpacity /\ [][NextOpacity]_vars

-----------------------------------------------------------------------------
\* The State Store on its own: setters, restart from the durable record, and
\* a caller that holds and edits the object getState() returned.

\* getState() copies the outer object, the three maps and the layerOrder
\* array one level deep ({...x}, [...x]): the {visible, opacity} records in
\* the copied maps are the Store's own objects (ref), until the caller
\* replaces one by an object of its own.
StoreRef == [ref |-> TRUE, visible |-> FALSE, opacity |-> 0]

TakeSnapshot(w) ==
    [w EXCEPT !.snap =
        [baseId |-> w.currentBaseId,
         overlays |-> [k \in DOMAIN w.overlayStates |-> StoreRef],
         groups |-> [k \in DOMAIN w.groupStates |-> StoreRef],
         layerOrder |-> w.layerOrder,
         viewport |-> w.viewportState]]

\* returned.overlays[id].visible = v / returned.groups[g].opacity = x / ...
WriteOverlayRecord(w, id, state) ==
    IF w.snap.overlays[id].ref
    THEN [w EXCEPT !.overlayStates[id] = Assign(@, state)]
    ELSE [w EXCEPT !.snap.overlays[id] = [ref |-> FALSE] @@ Assign(@, state)]

WriteGroupRecord(w, g, state) ==
    IF w.snap.groups[g].ref
    THEN [w EXCEPT !.groupStates[g] = Assign(@, state)]
    ELSE [w EXCEPT !.snap.groups[g] = [ref |-> FALSE] @@ Assign(@, state)]

\* returned.overlays[id] = {visible, opacity}: the caller's own object
ReplaceOverlayRecord(w, id, rec) ==
    [w EXCEPT !.snap.overlays[id] =
        [ref |-> FALSE, visible |-> rec.visible, opacity |-> rec.opacity]]

\* returned.layerOrder.length = 0, returned.viewport.zoom = z, returned.baseId = b
WriteTopLevel(w, field, value) == [w EXCEPT !.snap[field] = value]
WriteViewport(w, zoom) == [w EXCEPT !.snap.viewport.zoom = zoom]

StoreBaseArgs == {"b1", "b2"}
StoreOverlayArgs == {[visible |-> TRUE], [visible |-> FALSE], [opacity |-> 0]}
StoreGroupArgs == {[visible |-> TRUE], [opacity |-> 5]}
StoreViewportArgs == {[zoom |-> 0], [zoom |-> 7], [bearing |-> 30, pitch |-> 0]}
StoreConfigs == {<<OvA, OvB>>, <<OvB>>}

StoreSetBase == \E b \in StoreBaseArgs : Step(setBase(World, b))

StoreSetOverlay ==
    \E id \in DOMAIN overlayStates, st \in StoreOverlayArgs : Step(setOverlay(World, id, st))

StoreSetGroup ==
    \E g \in DOMAIN groupStates, st \in StoreGroupArgs : Step(setGroup(World, g, st))

StoreSetViewport == \E v \in StoreViewportArgs : Step(setViewport(World, v))

\* a new session: a fresh Store from the record in storage, with the same or
\* a reduced configuration
Restart ==
    \E ovs \in StoreConfigs :
        /\ OverlayIdsOf([overlays |-> ovs]) \subseteq OverlayIdsOf(World)
        /\ Step(Construct(ovs, persist, storage))

GetState == Step(TakeSnapshot(World))

EditOverlayRecord ==
    /\ snap # NoSnap
    /\ \E id \in DOMAIN snap.overlays, st \in {[visible |-> TRUE], [opacity |-> 5]} :
          Step(WriteOverlayRecord(World, id, st))

EditGroupRecord ==
    /\ snap # NoSnap
    /\ \E g \in DOMAIN snap.groups, st \in {[visible |-> TRUE]} :
          Step(WriteGroupRecord(World, g, st))

EditOverlayEntry ==
    /\ snap # NoSnap
    /\ \E id \in DOMAIN snap.overlays :
          Step(ReplaceOverlayRecord(World, id, [visible |-> TRUE, opacity |-> 5]))

EditTopLevel ==
    /\ snap # NoSnap
    /\ \/ Step(WriteTopLevel(World, "layerOrder", <<>>))
       \/ Step(WriteTopLevel(World, "baseId", "b2"))
       \/ Step(WriteViewport(World, 7))

CallerEdits == EditOverlayRecord \/ EditGroupRecord \/ EditOverlayEntry \/ EditTopLevel

\* setters observed by a subscriber
InitStore == StartsAs(Construct(<<OvA>>, TRUE, NoRecord), TRUE)

NextStore ==
    \/ StoreSetBase
    \/ StoreSetOverlay
    \/ StoreSetGroup
    \/ StoreSetViewport

SpecStore == InitStore /\ [][NextStore]_vars

\* setters and restarts with persistence enabled
InitPersist == StartsAs(Construct(<<OvA, OvB>>, TRUE, NoRecord), FALSE)

NextPersist ==
    \/ StoreSetBase
    \/ StoreSetOverlay
    \/ StoreSetGroup
    \/ StoreSetViewport
    \/ Restart

SpecPersist == InitPersist /\ [][NextPersist]_vars

\* a caller holding what getState() returned
InitSnapshot == StartsAs(Construct(<<OvA, OvB>>, FALSE, NoRecord), FALSE)

NextSnapshot ==
    \/ StoreSetOverlay
    \/ GetState
    \/ EditOverlayRecord
    \/ EditGroupRecord
    \/ EditOverlayEntry
    \/ EditTopLevel

SpecSnapshot == InitSnapshot /\ [][NextSnapshot]_vars

-----------------------------------------------------------------------------
\* Group toggles one at a time: every operation starts when no call is
\* suspended, so nothing interleaves with a toggle in progress.

OvD == Overlay("D", "G", TRUE, <<"d1">>, FALSE)

GroupConfigs == {<<OvA, OvB>>, <<OvB, OvA>>, <<OvB, OvC, OvD>>}

Idle == calls = EmptyBag

AttachIdle == Idle /\ Attach

SetStateVisibleIdle == Idle /\ SetStateVisible

ToggleOverlayGroupIdle == Idle /\ ToggleOverlayGroup

InitGroup == \E ovs \in GroupConfigs : StartsAs(Construct(ovs, FALSE, NoRecord), TRUE)

NextGroup ==
    \/ AttachIdle
    \/ SetStateVisibleIdle
    \/ ToggleOverlayGroupIdle
    \/ ToggleOverlayGroupResume
    \/ LoaderSettles

SpecGroup == InitGroup /\ [][NextGroup]_vars

-----------------------------------------------------------------------------
\* Properties

RECURSIVE SumCopies(_, _)
SumCopies(S, B) ==
    IF S = {} THEN 0
    ELSE LET c == CHOOSE x \in S : TRUE
         IN  CopiesIn(c, B) + SumCopies(S \ {c}, B)

\* loader invocations for id that have not settled
LoadsPending(id) ==
    SumCopies({c \in BagToSet(calls) : c.stage = "loading" /\ c.overlay.id = id}, calls)

\* ids some suspended call is still working on
Busy == {c.id : c \in BagToSet(calls)}

Attached(layerIds) == \E i \in DOMAIN deckLayers : deckLayers[i].id \in Range(layerIds)

HasEvent(evs, ev) == \E i \in DOMAIN evs : evs[i] = ev

\* C1: the loader of an overlay is never invoked while an earlier invocation
\* for the same id is pending, and a show() issued while the load is in
\* flight returns false at once and changes nothing.
C1_AtMostOneLoad ==
    \A id \in PoolIds :
        /\ LoadsPending(id) <= 1
        /\ LoadsPending(id) = 1 =>
              \A u \in BOOLEAN : show(World, id, u) = [w |-> World, status |-> "false"]

\* a second show of B (by the group toggle) came back false while B's load is pending
C1_Witness ==
    \E c1, c2 \in BagToSet(calls) :
        /\ c1.stage = "loading"
        /\ c2.kind = "group" /\ c2.stage = "returned"
        /\ c2.id = c1.overlay.id /\ ~c2.result

\* C2 (cached error): after a failed load, a show of the overlay that is not
\* the retry action returns false again and does not invoke the loader.
C2_CachedError ==
    \A id \in renderOnClickErrors :
        LET r == show(World, id, FALSE)
        IN  r.status = "false" /\ r.w.renderOnClickLoading = renderOnClickLoading

\* C2 (error until the next show): a failing load emits an error event with
\* the thrown error's message and records the id in the error set, with
\* nothing cached or attached; there is no automatic retry, and the next show
\* of the overlay, through the retry action or not, clears the recorded error
\* and invokes the loader again.
C2_ErrorUntilNextShow ==
    /\ \A c \in BagToSet(calls) : \A outcome \in {"throw", "malformed"} :
          c.stage = "loading" =>
              LET w == loaderSettles(World, c, outcome)
              IN  /\ HasEvent(w.log, [type |-> "error", id |-> c.overlay.id,
                                      error |-> ErrorMessage(outcome)])
                  /\ c.overlay.id \in w.renderOnClickErrors
                  /\ c.overlay.id \notin DOMAIN w.renderOnClickCache
                  /\ w.deckLayers = deckLayers
    /\ \A id \in renderOnClickErrors :
          /\ id \notin DOMAIN renderOnClickCache
          /\ LoadsPending(id) = 0
          /\ \A w \in {show(World, id, FALSE).w, retryoverlay(World, id)} :
                /\ id \in w.renderOnClickLoading
                /\ id \notin w.renderOnClickErrors
                /\ HasEvent(w.log, [type |-> "loading", id |-> id])

\* B's load has just failed with the loader's message
C2_Witness ==
    /\ "B" \in renderOnClickErrors
    /\ HasEvent(log, [type |-> "error", id |-> "B", error |-> "boom"])

\* C3: when a deferred load has failed and the operation that triggered it
\* is over, nothing of the overlay is attached and it is recorded not visible.
C3_FailedLoadStaysHidden ==
    \A i \in DOMAIN overlays :
        LET o == overlays[i]
        IN  (o.id \in renderOnClickErrors /\ o.id \notin Busy) =>
                /\ ~Attached(o.loads)
                /\ ~overlayStates[o.id].visible

\* C4: Layer Order has no id twice and only ids recorded visible.
C4_LayerOrderInvariant ==
    /\ \A i, j \in DOMAIN layerOrder : layerOrder[i] = layerOrder[j] => i = j
    /\ \A i \in DOMAIN layerOrder :
          /\ layerOrder[i] \in DOMAIN overlayStates
          /\ overlayStates[layerOrder[i]].visible

\* C5: the ids with an Overlay State entry are the configured overlay ids.
C5_OverlayStateLockstep == DOMAIN overlayStates = OverlayIdsOf(World)

\* A was removed and C added
C5_Witness == DOMAIN overlayStates = {"C"} /\ Len(overlays) = 1 /\ ~exc

\* C8: every recorded overlay and group opacity lies within [0, 1].
C8_OpacityInRange ==
    /\ \A id \in DOMAIN overlayStates :
          overlayStates[id].opacity >= 0 /\ overlayStates[id].opacity <= OpacityScale
    /\ \A g \in DOMAIN groupStates :
          groupStates[g].opacity >= 0 /\ groupStates[g].opacity <= OpacityScale

Restrict(f, keys) == [k \in DOMAIN f \cap keys |-> f[k]]

GroupIdsOf(ovs) == {ovs[i].group : i \in DOMAIN ovs} \ {NoGroup}

\* C6: with persistence enabled, a new control built on the same storage key
\* restores a state equal to getState() of the old one (numeric viewport
\* fields of 0 included); built with a reduced configuration it restores the
\* same state without the entries of ids no longer configured.
C6_PersistRoundTrip ==
    (persist /\ storage = getState(World)) =>
        \A ovs \in StoreConfigs :
            OverlayIdsOf([overlays |-> ovs]) \subseteq OverlayIdsOf(World) =>
                LET ids == OverlayIdsOf([overlays |-> ovs])
                    old == getState(World)
                    new == getState(Construct(ovs, TRUE, storage))
                IN  /\ new.baseId = old.baseId
                    /\ new.overlays = Restrict(old.overlays, ids)
                    /\ new.groups = Restrict(old.groups, GroupIdsOf(ovs))
                    /\ new.layerOrder = SelectSeq(old.layerOrder, LAMBDA id : id \in ids)
                    /\ new.viewport = old.viewport

\* C7: nothing the caller does to the object getState() returned, at any
\* depth, changes the Store's state (and so what a later getState() returns).
C7_DefensiveCopy == [][CallerEdits => getState(World)' = getState(World)]_vars

\* the event a setter announces, from the Store before and after the call
WithPrevious(before, after, ev) ==
    \/ ev = [type |-> "basechange", baseId |-> after.currentBaseId,
             previousBaseId |-> before.currentBaseId]
    \/ \E id \in DOMAIN after.overlayStates :
          ev = [type |-> "overlaychange", id |-> id,
                visible |-> after.overlayStates[id].visible,
                opacity |-> after.overlayStates[id].opacity,
                previousVisible |-> before.overlayStates[id].visible,
                previousOpacity |-> before.overlayStates[id].opacity]
    \/ ev = [type |-> "viewportchange", viewport |-> after.viewportState,
             previousViewport |-> before.viewportState]

GroupWithPrevious(before, after, ev) ==
    /\ ev.type = "overlaygroupchange"
    /\ ev.groupId \in DOMAIN after.groupStates
    /\ ev.visible = after.groupStates[ev.groupId].visible
    /\ ev.opacity = after.groupStates[ev.groupId].opacity
    /\ "previousVisible" \in DOMAIN ev /\ "previousOpacity" \in DOMAIN ev
    /\ ev.previousVisible = before.groupStates[ev.groupId].visible
    /\ ev.previousOpacity = before.groupStates[ev.groupId].opacity

GroupWithoutPrevious(after, ev) ==
    \E g \in DOMAIN after.groupStates :
        ev = [type |-> "overlaygroupchange", groupId |-> g,
              visible |-> after.groupStates[g].visible,
              opacity |-> after.groupStates[g].opacity,
              overlays |-> GroupMembers(after.overlays, g)]

PersistThenEvents(evs, after) ==
    /\ Len(evs) = 3
    /\ evs[1] = [type |-> "persist", record |-> getState(after)]
    /\ evs[3] = [type |-> "change", state |-> getState(after)]

\* C9 (previous values in every event): a setter persists, then emits one specific event carrying
\* the new and the previous values, then one change event equal to getState().
C9_SetterEventsAllPrevious ==
    [][log' # <<>> =>
          /\ PersistThenEvents(log', World')
          /\ \/ WithPrevious(World, World', log'[2])
             \/ GroupWithPrevious(World, World', log'[2])]_vars

\* C9: a setter persists first, then emits exactly one specific event (the
\* base, overlay and viewport events carry the new and the previous values,
\* the group event the new values and the member ids), then exactly one
\* change event whose payload equals getState().
C9_SetterEvents ==
    [][log' # <<>> =>
          /\ PersistThenEvents(log', World')
          /\ \/ WithPrevious(World, World', log'[2])
             \/ GroupWithoutPrevious(World', log'[2])]_vars

C9_Witness ==
    /\ Len(log) = 3
    /\ log[2].type = "overlaygroupchange"
    /\ log[2].visible
    /\ storage = getState(World)


IsPrefix(a, b) == Len(a) <= Len(b) /\ a = SubSeq(b, 1, Len(a))

\* what a toggle of group g to v announces, members in configuration order
GroupToggleEvents(start) ==
    <<start>>
    \o [i \in 1..Len(start.overlays) |->
           [type |-> "overlaychange", id |-> start.overlays[i],
            visible |-> start.visible, overlays |-> <<>>]]
    \o <<[type |-> "overlaygroupchange", id |-> start.id,
          visible |-> start.visible, overlays |-> start.overlays]>>

\* C10: toggleOverlayGroup(g, v) with nothing interleaving emits one
\* overlaychange per member, in configuration order, and only then records
\* the group flag and emits overlaygroupchange; when it has finished every
\* member is recorded with v, for v = true also a member whose show failed.
C10_GroupToggleOrder ==
    trace # <<>> =>
        LET start == trace[1]
            expected == GroupToggleEvents(start)
        IN  /\ IsPrefix(trace, expected)
            /\ Idle <=> trace = expected
            /\ \A i \in 2..Len(trace) :
                  trace[i].type = "overlaychange" =>
                      overlayStates[trace[i].id].visible = start.visible
            /\ trace = expected => groupStates[start.id].visible = start.visible

C10_Witness ==
    /\ trace # <<>>
    /\ trace = GroupToggleEvents(trace[1])
    /\ trace[1].visible
    /\ Len(trace[1].overlays) = 2
    /\ \E id \in renderOnClickErrors \cap Range(trace[1].overlays) :
          overlayStates[id].visible

-----------------------------------------------------------------------------
\* Zoom filtering

\* the map fires zoomend with the camera at zoom z: _onZoomEnd
_onZoomEnd(w, z) == updateAllZoomFiltering([w EXCEPT !.mapZoom = z])

Zoomed(overlay, min, max) ==
    [overlay EXCEPT !.minZoomLevel = min, !.maxZoomLevel = max]

MaxZoom == 12

ZoomLevels == {4, 7, 10}
ZoomConfig == <<Zoomed(OvA, 5, 10), Zoomed(OvB, 5, 10)>>
ZoomRanges == {Zoomed(OvA, min, max) : min \in {Undef, 0, 5}, max \in {Undef, 5, 10}}

ZoomEnd ==
    /\ map
    /\ \E z \in ZoomLevels : z # mapZoom /\ Step(Fresh(_onZoomEnd(World, z)))

InitZoom == StartsAs(Construct(ZoomConfig, FALSE, NoRecord), TRUE)

NextZoom ==
    \/ Attach
    \/ ZoomEnd
    \/ ToggleOverlay
    \/ ToggleOverlayResume
    \/ LoaderSettles

SpecZoom == InitZoom /\ [][NextZoom]_vars

InRange(z, overlay) ==
    /\ overlay.minZoomLevel = Undef \/ z >= overlay.minZoomLevel
    /\ overlay.maxZoomLevel = Undef \/ z < overlay.maxZoomLevel

\* C11: with a map attached, an overlay passes the zoom check at zoom z exactly
\* when (min is undefined or z >= min) and (max is undefined or z < max); an
\* overlay with min 5 and max 10 passes at 7 and is filtered at 4 and at 10.
C11_HalfOpenZoomRange ==
    map =>
        /\ \A o \in ZoomRanges, z \in 0..MaxZoom :
               _checkZoomConstraints([World EXCEPT !.mapZoom = z], o) = InRange(z, o)
        /\ _checkZoomConstraints([World EXCEPT !.mapZoom = 7], Zoomed(OvA, 5, 10))
        /\ ~_checkZoomConstraints([World EXCEPT !.mapZoom = 4], Zoomed(OvA, 5, 10))
        /\ ~_checkZoomConstraints([World EXCEPT !.mapZoom = 10], Zoomed(OvA, 5, 10))

\* an overlay of range [5, 10) recorded visible and filtered at zoom 10
C11_Witness ==
    /\ map /\ mapZoom = 10
    /\ "A" \in DOMAIN overlayStates /\ overlayStates["A"].visible
    /\ "A" \in zoomFilteredOverlays

\* the render content of an overlay: its declared layers, or the cached
\* result of its loader
ContentOf(w, id) ==
    IF FindOverlay(w, id).renderOnClick
    THEN IF id \in DOMAIN w.renderOnClickCache THEN w.renderOnClickCache[id] ELSE <<>>
    ELSE FindOverlay(w, id).deckLayers

ZoomFilterEvents(w, id) ==
    SelectSeq(w.log, LAMBDA ev : ev.type = "zoomfilter" /\ ev.id = id)

\* what updateAllZoomFiltering leaves for one overlay recorded visible, given
\* the filtered set before the call
ZoomSettledFor(before, w, id) ==
    /\ id \in w.zoomFilteredOverlays <=> ~InRange(w.mapZoom, FindOverlay(w, id))
    /\ \A l \in Range(ContentOf(w, id)) :
           MapHas(w.deckLayers, l) <=> InRange(w.mapZoom, FindOverlay(w, id))
    /\ ZoomFilterEvents(w, id) =
           IF (id \in w.zoomFilteredOverlays) = (id \in before)
           THEN <<>>
           ELSE <<[type |-> "zoomfilter", id |-> id,
                   filtered |-> id \in w.zoomFilteredOverlays]>>

ZoomSettled(before, w) ==
    /\ \A id \in DOMAIN w.overlayStates :
           w.overlayStates[id].visible => ZoomSettledFor(before, w, id)
    /\ updateAllZoomFiltering([w EXCEPT !.log = <<>>]).log = <<>>

\* C12: after updateAllZoomFiltering() at any zoom, every overlay recorded
\* visible is in the filtered set exactly when the zoom is outside its range,
\* its render content (declared or cached) is attached exactly when the zoom
\* is inside, and zoomfilter was emitted exactly for the overlays whose filtered
\* status changed; a second call at the same zoom emits nothing.
C12_ZoomRefilter ==
    map => \A z \in ZoomLevels : ZoomSettled(zoomFilteredOverlays, _onZoomEnd(World, z))

\* toggleOverlay(id, true) run to its end with nothing else in between: the
\* loader, when invoked, resolves with its layers
RECURSIVE RunCalls(_, _)
RunCalls(w, id) ==
    IF \A c \in BagToSet(w.calls) : c.id # id THEN w
    ELSE LET c == CHOOSE c \in BagToSet(w.calls) : c.id = id
         IN  RunCalls(IF c.stage = "loading" THEN loaderSettles(w, c, "ok")
                      ELSE toggleOverlayResume(w, c),
                      id)

ShownByToggle(w, id) == RunCalls(toggleOverlay(w, id, "true", FALSE), id)

\* wasVisible: the recorded flag before the call (setOverlay appends on a
\* change to visible only)
FilteredShown(w, id, wasVisible) ==
    /\ \A l \in Range(ContentOf(w, id)) : ~MapHas(w.deckLayers, l)
    /\ id \in w.zoomFilteredOverlays
    /\ ZoomFilterEvents(w, id) = <<[type |-> "zoomfilter", id |-> id, filtered |-> TRUE]>>
    /\ w.overlayStates[id].visible
    /\ id \in Range(w.layerOrder)
    /\ ~wasVisible => w.layerOrder[Len(w.layerOrder)] = id

\* C13: toggleOverlay(id, true) while the zoom is outside the overlay's range
\* leaves no render content of id attached, id in the filtered set, one
\* zoomfilter event with filtered true, and the overlay recorded visible and in
\* Layer Order.
C13_FilteredShow ==
    (map /\ Idle) =>
        \A id \in DOMAIN overlayStates :
            ~InRange(mapZoom, FindOverlay(World, id)) =>
                FilteredShown(ShownByToggle(World, id), id, overlayStates[id].visible)

-----------------------------------------------------------------------------
\* Sessions over one durable record with changing configurations

OvE == Overlay("E", "H", FALSE, <<"e1">>, TRUE)
OvX == Overlay("X", "K", FALSE, <<"x1">>, TRUE)

SessionConfigs == {<<OvA, OvB, OvE>>, <<OvX, OvA>>}
SessionBaseArgs == {"b2", "bx"}
SessionOverlayArgs == {[visible |-> TRUE], [visible |-> FALSE, opacity |-> 5]}
SessionGroupArgs == {[visible |-> TRUE], [opacity |-> 5]}

SessionSetBase == \E b \in SessionBaseArgs : Step(setBase(World, b))

SessionSetOverlay ==
    \E id \in DOMAIN overlayStates, st \in SessionOverlayArgs : Step(setOverlay(World, id, st))

SessionSetGroup ==
    \E g \in DOMAIN groupStates, st \in SessionGroupArgs : Step(setGroup(World, g, st))

\* a new StateStore on the same localStorage key, with any configuration
NewSession == \E ovs \in SessionConfigs : Step(Construct(ovs, persist, storage))

ClearMemory == Step(clearMemory(World))

InitRestore == \E ovs \in SessionConfigs : StartsAs(Construct(ovs, TRUE, NoRecord), TRUE)

NextRestore ==
    \/ SessionSetBase
    \/ SessionSetOverlay
    \/ SessionSetGroup
    \/ NewSession
    \/ ClearMemory

SpecRestore == InitRestore /\ [][NextRestore]_vars

\* the Store restored from a record by a configuration: no unknown id is
\* left, configured ids carry the persisted values
RestoredFrom(record, ovs, w) ==
    /\ ~w.exc
    /\ DOMAIN w.overlayStates = OverlayIdsOf([overlays |-> ovs])
    /\ DOMAIN w.groupStates = GroupIdsOf(ovs)
    /\ w.layerOrder = SelectSeq(record.layerOrder,
                                LAMBDA id : id \in OverlayIdsOf([overlays |-> ovs]))
    /\ \A id \in DOMAIN w.overlayStates \cap DOMAIN record.overlays :
           w.overlayStates[id] = record.overlays[id]
    /\ \A g \in DOMAIN w.groupStates \cap DOMAIN record.groups :
           w.groupStates[g] = record.groups[g]
    /\ w.currentBaseId = IF record.baseId \in BaseIds THEN record.baseId ELSE DefaultBaseId

\* C14: a Store constructed over a persisted record that names overlay ids,
\* group ids, layer-order ids or a base id unknown to the configuration does
\* not throw; its overlay states, group states and Layer Order hold none of the
\* unknown ids, configured ids keep the persisted values, and an unknown base
\* id leaves the default base selected.
C14_RestoreDropsUnknown ==
    storage # NoRecord =>
        \A ovs \in SessionConfigs : RestoredFrom(storage, ovs, Construct(ovs, TRUE, storage))

\* a session restored from a record that names overlay X, group K and base bx,
\* none of them configured now
C14_Witness ==
    /\ storage # NoRecord
    /\ "X" \in DOMAIN storage.overlays /\ "X" \notin DOMAIN overlayStates
    /\ "K" \in DOMAIN storage.groups /\ "K" \notin DOMAIN groupStates
    /\ "X" \in Range(storage.layerOrder) /\ "A" \in Range(layerOrder)
    /\ storage.baseId = "bx" /\ currentBaseId = DefaultBaseId
    /\ overlayStates["A"] = storage.overlays["A"]

\* the in-memory state of the Store, previous values included
MemoryOf(w) ==
    [state |-> getState(w), previousBaseId |-> w.previousBaseId,
     previousViewport |-> w.previousViewportState, overlays |-> w.overlays]

\* C15: with a localStorage key configured, clearMemory deletes the durable
\* record, emits memorycleared exactly once and nothing else, and leaves the
\* base id, overlay states, group states, Layer Order and viewport as they were.
C15_ClearMemoryFrame ==
    /\ clearMemory(World).storage = NoRecord
    /\ clearMemory(World).log = <<[type |-> "memorycleared"]>>
    /\ MemoryOf(clearMemory(World)) = MemoryOf(World)
    /\ ~clearMemory(World).exc

\* the record was cleared in a session that had written one, and the memory
\* still holds what was set
C15_Witness ==
    /\ log = <<[type |-> "memorycleared"]>>
    /\ storage = NoRecord
    /\ layerOrder # <<>> /\ currentBaseId # DefaultBaseId

GroupUpdates == SessionGroupArgs \cup {[visible |-> FALSE], [visible |-> FALSE, opacity |-> 0]}

\* w: the Store after setGroup(g, st) called in the current state
OnlyGroupChanged(w, g, st) ==
    /\ ~w.exc
    /\ w.overlayStates = overlayStates
    /\ w.layerOrder = layerOrder
    /\ w.currentBaseId = currentBaseId
    /\ w.viewportState = viewportState
    /\ DOMAIN w.groupStates = DOMAIN groupStates
    /\ \A h \in DOMAIN groupStates \ {g} : w.groupStates[h] = groupStates[h]
    /\ \A f \in DOMAIN st : w.groupStates[g][f] = st[f]

\* C16: setGroup(g, update) changes only the record of group g: the visible
\* and opacity of every overlay (members included), Layer Order, the base id,
\* the viewport and every other group are as before the call.
C16_SetGroupFrame ==
    \A g \in DOMAIN groupStates, st \in GroupUpdates :
        OnlyGroupChanged(setGroup(World, g, st), g, st)

\* group G was just made visible while its member A stays recorded hidden
C16_Witness ==
    /\ Len(log) = 3 /\ log[2].type = "overlaygroupchange" /\ log[2].groupId = "G"
    /\ groupStates["G"].visible
    /\ ~overlayStates["A"].visible /\ "A" \notin Range(layerOrder)
    /\ DOMAIN groupStates = {"G", "H"}

OverlayUpdates ==
    {[visible |-> TRUE], [visible |-> FALSE], [opacity |-> 5], [visible |-> TRUE, opacity |-> 0]}

Without(order, id) == SelectSeq(order, LAMBDA x : x # id)

\* the Layer Order setOverlay(id, st) must leave, from the order and the
\* visible flag before the call
OrderAfter(order, wasVisible, id, st) ==
    IF "visible" \notin DOMAIN st \/ st.visible = wasVisible THEN order
    ELSE IF st.visible THEN Append(Without(order, id), id)
    ELSE Without(order, id)

\* C17: setOverlay moves id to the end of Layer Order on a change of visible
\* from false to true, removes it on a change from true to false, keeps the
\* relative order of the other ids in both cases, and leaves Layer Order as it
\* is otherwise; visible true followed by visible false leaves id absent.
C17_LayerOrderTransition ==
    \A id \in DOMAIN overlayStates :
        /\ \A st \in OverlayUpdates :
               setOverlay(World, id, st).layerOrder =
                   OrderAfter(layerOrder, overlayStates[id].visible, id, st)
        /\ id \notin Range(setOverlay(setOverlay(World, id, [visible |-> TRUE]),
                                      id, [visible |-> FALSE]).layerOrder)

\* three overlays are in Layer Order and the one shown last, A, is on top of
\* the two shown before it
C17_Witness ==
    /\ Len(layerOrder) = 3 /\ layerOrder[3] = "A"
    /\ Len(log) = 3 /\ log[2].type = "overlaychange" /\ log[2].id = "A"
    /\ log[2].visible /\ ~log[2].previousVisible

-----------------------------------------------------------------------------
\* Events of show()

SuccessEvents(w, id) == SelectSeq(w.log, LAMBDA ev : ev.type = "success" /\ ev.id = id)

\* r: what show() returned with, [w, result]; the shown outcome is a true
\* result with the overlay's content attached
ShownOnce(r, id, content) ==
    (r.result /\ \A l \in Range(content) : MapHas(r.w.deckLayers, l)) =>
        Len(SuccessEvents(r.w, id)) = 1

ShowReturn(r) == [w |-> r.w, result |-> r.status = "true"]

\* C18: a show() that ends with the overlay shown has emitted exactly one
\* success event for it, whether the content was declared, cached, or loaded
\* by this very call.
C18_OneSuccessPerShow ==
    /\ \A id \in OverlayIdsOf(World) :
           show(World, id, FALSE).status # "await" =>
               ShownOnce(ShowReturn(show(World, id, FALSE)), id, ContentOf(World, id))
    /\ \A c \in BagToSet(calls) :
           c.stage = "loading" =>
               ShownOnce(showResume(DropCall(World, c), c.overlay, c.user, "ok"),
                         c.id, c.overlay.loads)

-----------------------------------------------------------------------------
\* hide()

OvS == Overlay("C", NoGroup, FALSE, <<"c1">>, FALSE)

HideConfig == <<OvA, OvB, Zoomed(OvS, 5, 10)>>

InitHide == StartsAs(Construct(HideConfig, FALSE, NoRecord), FALSE)

NextHide ==
    \/ Attach
    \/ ZoomEnd
    \/ ToggleOverlay
    \/ ToggleOverlayResume
    \/ LoaderSettles
    \/ SetStateVisible

SpecHide == InitHide /\ [][NextHide]_vars

HideIds == PoolIds \cup {"ghost"}

NothingShown(w, id) ==
    /\ id \notin w.zoomFilteredOverlays
    /\ id \in OverlayIdsOf(w) => \A l \in Range(ContentOf(w, id)) : ~MapHas(w.deckLayers, l)

\* C19: hide(id) leaves none of the declared or cached layers of id attached
\* and id out of the filtered set; a second hide(id), and hide of an overlay
\* that is unknown or has nothing shown, changes nothing and raises no error.
C19_HideIdempotent ==
    \A id \in HideIds :
        /\ NothingShown(hide(World, id), id)
        /\ ~hide(World, id).exc
        /\ hide(hide(World, id), id) = hide(World, id)
        /\ (id \notin OverlayIdsOf(World) \/ NothingShown(World, id)) => hide(World, id) = World

-----------------------------------------------------------------------------
\* Forced base style, bearing and pitch

Forced(overlay, baseId, bearing, pitch) ==
    [overlay EXCEPT !.forcedBaseLayerId = baseId, !.forcedBearing = bearing,
                    !.forcedPitch = pitch]

\* A forces a base style that is not configured and a pitch; B, loaded on
\* demand, forces the configured b2 and a bearing
ForcedConfig == <<Forced(OvA, "bx", Undef, 45), Forced(OvB, "b2", 30, Undef)>>

InitForced == StartsAs(Construct(ForcedConfig, FALSE, NoRecord), TRUE)

NextForced ==
    \/ Attach
    \/ ToggleOverlay
    \/ ToggleOverlayResume
    \/ LoaderSettles
    \/ StoreSetBase
    \/ StoreSetViewport

SpecForced == InitForced /\ [][NextForced]_vars

\* r: what a show() of overlay returned with, [w, result], started in the
\* current state
ForcedRecorded(r, overlay) ==
    IF r.result
    THEN /\ overlay.forcedBaseLayerId \in BaseIds =>
                /\ r.w.currentBaseId = overlay.forcedBaseLayerId
                /\ currentBaseId # overlay.forcedBaseLayerId =>
                       HasEvent(r.w.log, [type |-> "basechange",
                                          baseId |-> overlay.forcedBaseLayerId,
                                          previousBaseId |-> currentBaseId])
         /\ overlay.forcedBaseLayerId \notin BaseIds => r.w.currentBaseId = currentBaseId
         /\ overlay.forcedBearing # Undef => r.w.viewportState.bearing = overlay.forcedBearing
         /\ overlay.forcedPitch # Undef => r.w.viewportState.pitch = overlay.forcedPitch
    ELSE /\ r.w.currentBaseId = currentBaseId
         /\ r.w.viewportState = viewportState

\* C20: after a show() that does not fail, a configured forced base style is
\* the Store's baseId (set by Store setBase, with a basechange event) and the
\* forced bearing and pitch are in the Store's viewport; a forced base style
\* that is not configured leaves baseId as it was; a show() that fails (in the
\* deferred load or before it) changes neither baseId nor the viewport.
C20_ForcedThroughStore ==
    /\ \A id \in OverlayIdsOf(World), user \in BOOLEAN :
           show(World, id, user).status # "await" =>
               ForcedRecorded(ShowReturn(show(World, id, user)), FindOverlay(World, id))
    /\ \A c \in BagToSet(calls), outcome \in Outcomes :
           c.stage = "loading" =>
               ForcedRecorded(showResume(DropCall(World, c), c.overlay, c.user, outcome),
                              c.overlay)

\* B's load resolved while b1 was selected: b2 and bearing 30 are recorded, and
\* A's forced pitch with them
C20_Witness ==
    /\ HasEvent(log, [type |-> "basechange", baseId |-> "b2", previousBaseId |-> "b1"])
    /\ currentBaseId = "b2" /\ viewportState.bearing = 30 /\ viewportState.pitch = 45
    /\ MapHas(deckLayers, "b1") /\ MapHas(deckLayers, "a1")

-----------------------------------------------------------------------------
\* LayersControl.getInitialStyle

NoStyle == "null"

\* options.baseStyles.find(b => b.id === id), NoStyle standing for a failed find
FindBase(id) ==
    IF id \in BaseIds
    THEN BaseStyles[CHOOSE i \in DOMAIN BaseStyles : BaseStyles[i].id = id]
    ELSE [id |-> id, strategy |-> "none", style |-> NoStyle]

\* persistedBaseId || defaultBaseId || baseStyles[0]?.id, then the style of
\* that base when it is configured with the setStyle strategy
getInitialStyle(persistOn, stored) ==
    LET persistedBaseId == IF /\ persistOn
                              /\ stored \notin {NoRecord, StorageDown, CorruptRecord}
                              /\ stored.baseId # NoBase
                           THEN stored.baseId ELSE NoBase
        targetBaseId == IF persistedBaseId # NoBase THEN persistedBaseId ELSE DefaultBaseId
    IN  IF FindBase(targetBaseId).strategy = "setStyle"
        THEN FindBase(targetBaseId).style ELSE NoStyle

\* C21: for every configuration and every persisted record, getInitialStyle
\* returns the style of the base id that a Store constructed from the same
\* options and record selects, when that base uses setStyle; also when the
\* persisted base id is not configured any more and the Store selects the
\* default base.
C21_InitialStyleAgrees ==
    \A ovs \in SessionConfigs :
        FindBase(Construct(ovs, persist, storage).currentBaseId).strategy = "setStyle" =>
            getInitialStyle(persist, storage) =
                FindBase(Construct(ovs, persist, storage).currentBaseId).style

-----------------------------------------------------------------------------
\* Storage failures

FaultyStorage == {StorageDown, CorruptRecord}

InitFault ==
    \E ovs \in SessionConfigs, st \in FaultyStorage : StartsAs(Construct(ovs, TRUE, st), TRUE)

NextFault ==
    \/ SessionSetBase
    \/ SessionSetOverlay
    \/ SessionSetGroup
    \/ NewSession

SpecFault == InitFault /\ [][NextFault]_vars

\* the events of a call other than the storage write
Emitted(w) == SelectSeq(w.log, LAMBDA ev : ev.type # "persist")

Working(w) == [w EXCEPT !.storage = NoRecord]

\* w: the Store after a setter called in the current state, good: after the
\* same call with a storage that accepts the write
Undisturbed(w, good) ==
    /\ ~w.exc
    /\ w.storage = StorageDown
    /\ MemoryOf(w) = MemoryOf(good)
    /\ Emitted(w) = Emitted(good)
    /\ Len(Emitted(w)) = 2

\* C22: when the storage write throws during a Store setter, memory is updated
\* and the events are emitted as with a working storage and no exception
\* reaches the caller; when reading or parsing the record throws at
\* construction, the Store is constructed with its defaults.
C22_StorageFailureTolerated ==
    /\ storage = StorageDown =>
           /\ \A b \in SessionBaseArgs :
                  Undisturbed(setBase(World, b), setBase(Working(World), b))
           /\ \A id \in DOMAIN overlayStates, st \in OverlayUpdates :
                  Undisturbed(setOverlay(World, id, st), setOverlay(Working(World), id, st))
           /\ \A g \in DOMAIN groupStates, st \in GroupUpdates :
                  Undisturbed(setGroup(World, g, st), setGroup(Working(World), g, st))
           /\ \A v \in StoreViewportArgs :
                  Undisturbed(setViewport(World, v), setViewport(Working(World), v))
    /\ \A ovs \in SessionConfigs, st \in FaultyStorage :
           /\ ~Construct(ovs, TRUE, st).exc
           /\ MemoryOf(Construct(ovs, TRUE, st)) = MemoryOf(Construct(ovs, TRUE, NoRecord))

\* an overlay was made visible while every storage access throws
C22_Witness ==
    /\ storage = StorageDown
    /\ Len(log) = 2 /\ log[1].type = "overlaychange" /\ log[1].visible
    /\ layerOrder # <<>> /\ ~exc

-----------------------------------------------------------------------------
\* EventEmitter: subscription lists and publish

\* A handler is a function object; what its body does when invoked:
\* return normally, throw, or unsubscribe itself with off(event, handler).
Handlers ==
    { [name |-> "h1", does |-> "return"],
      [name |-> "h2", does |-> "throw"],
      [name |-> "h3", does |-> "off"] }

MaxHandlers == 3

HandlerNames(list) == [i \in 1..Len(list) |-> list[i].name]

EventEmitter_on(evs, event, handler) ==
    [evs EXCEPT ![event] = Append(@, handler)]

\* indexOf + splice(index, 1): the first occurrence goes.
EventEmitter_off(evs, event, handler) ==
    LET list == evs[event]
        found == {i \in 1..Len(list) : list[i] = handler}
    IN  IF found = {} THEN evs
        ELSE LET index == CHOOSE i \in found : \A j \in found : i <= j
             IN  [evs EXCEPT ![event] =
                     [i \in 1..(Len(list) - 1) |->
                         IF i < index THEN list[i] ELSE list[i + 1]]]

\* handler(data): the run b after the handler's body.
CallHandler(b, event, handler) ==
    LET called == [b EXCEPT !.calls = Append(@, handler.name)]
    IN  CASE handler.does = "return" -> called
          [] handler.does = "throw"  -> [called EXCEPT !.threw = TRUE]
          [] handler.does = "off"    ->
                [called EXCEPT !.events = EventEmitter_off(@, event, handler)]

\* try { handler(data) } catch (error) { console.error(...) }
TryHandler(b, event, handler) ==
    [CallHandler(b, event, handler) EXCEPT !.threw = FALSE]

\* Array.prototype.forEach over the live array: the length is read once,
\* each index is visited in ascending order if it is still present, and an
\* exception leaving the callback ends the loop.
RECURSIVE forEach(_, _, _, _)
forEach(b, event, k, len) ==
    IF k > len \/ b.threw THEN b
    ELSE IF k > Len(b.events[event]) THEN forEach(b, event, k + 1, len)
    ELSE forEach(TryHandler(b, event, b.events[event][k]), event, k + 1, len)

EventEmitter_emit(evs, event) ==
    forEach([events |-> evs, calls |-> <<>>, threw |-> FALSE],
            event, 1, Len(evs[event]))

BusOn ==
    \E event \in EventNames, handler \in Handlers :
        /\ Len(events[event]) < MaxHandlers
        /\ events' = EventEmitter_on(events, event, handler)
        /\ UNCHANGED <<controlVars, invoked, timerVars>>

BusOff ==
    \E event \in EventNames, handler \in Handlers :
        /\ events' = EventEmitter_off(events, event, handler)
        /\ UNCHANGED <<controlVars, invoked, timerVars>>

BusEmit ==
    \E event \in EventNames :
        LET run == EventEmitter_emit(events, event)
        IN  /\ events' = run.events
            /\ invoked' = [event |-> event,
                           subscribed |-> HandlerNames(events[event]),
                           calls |-> run.calls,
                           threw |-> run.threw]
            /\ UNCHANGED <<controlVars, timerVars>>

InitBus == StartsAs(Construct(<<OvA>>, FALSE, NoRecord), FALSE)

NextBus == BusOn \/ BusOff \/ BusEmit

SpecBus == InitBus /\ [][NextBus]_vars

\* C23: every publish invokes the handlers subscribed to the event, each
\* once and in subscription order, whatever a handler does, and no exception
\* reaches the publisher.
C23_BusIsolationAndOrder ==
    /\ invoked.calls = invoked.subscribed
    /\ ~invoked.threw

\* The same, for publishes where no subscribed handler unsubscribes.
C23_ThrowIsolated ==
    ("h3" \notin Range(invoked.subscribed)) =>
        /\ invoked.calls = invoked.subscribed
        /\ ~invoked.threw

-----------------------------------------------------------------------------
\* Viewport persistence: camera events, style reloads and the debounce timers

\* setTimeout(..., 500) in ticks of the clock
DebounceTicks == 2

\* the camera of the map when a timeout runs
MapCenter == "c0"

MapCamera(w) == [center |-> MapCenter, zoom |-> w.mapZoom, bearing |-> 0, pitch |-> 0]

\* OverlayManager._onStyleLoad emits styleload, and the facade applies the
\* recorded state again.
_onStyleLoad(w) == _applyInitialState(w)

\* debouncedSave of every registered closure: clearTimeout, then setTimeout.
debouncedSave(timeouts, savers) ==
    [i \in 1..MaxSavers |-> IF i <= savers THEN DebounceTicks ELSE timeouts[i]]

CameraKinds == {"moveend", "zoomend", "rotateend", "pitchend"}

\* A camera movement completes: zoomend runs the zoom filter first
\* (registered by setMap), then every debouncedSave.
CameraEnd ==
    \E kind \in CameraKinds, z \in ZoomLevels :
        /\ map
        /\ (kind # "zoomend") => z = mapZoom
        /\ CommitControl(IF kind = "zoomend" THEN _onZoomEnd(World, z) ELSE World)
        /\ saveTimeout' = debouncedSave(saveTimeout, viewportSavers)
        /\ viewportWrites' = 0
        /\ sinceCamera' = 0
        /\ UNCHANGED <<events, invoked>>

\* The style is loaded again (setStyle of a base style, or by the host).
StyleLoad ==
    /\ map
    /\ viewportSavers < MaxSavers
    /\ Step(_onStyleLoad(World))

\* Time passes; a timeout that is due runs before more time passes.
Tick ==
    /\ sinceCamera \in 0..(DebounceTicks - 1)
    /\ \A i \in 1..MaxSavers : saveTimeout[i] # 0
    /\ sinceCamera' = sinceCamera + 1
    /\ saveTimeout' = [i \in 1..MaxSavers |->
                          IF saveTimeout[i] = NoTimer THEN NoTimer ELSE saveTimeout[i] - 1]
    /\ UNCHANGED <<controlVars, events, invoked, viewportWrites>>

\* The timeout of one closure runs: the camera goes to the store.
SaveTimeoutRuns ==
    \E i \in 1..MaxSavers :
        /\ saveTimeout[i] = 0
        /\ CommitControl(setViewport(World, MapCamera(World)))
        /\ saveTimeout' = [saveTimeout EXCEPT ![i] = NoTimer]
        /\ viewportWrites' = viewportWrites + 1
        /\ UNCHANGED <<events, invoked, sinceCamera>>

InitDebounce == StartsAs(Construct(<<OvA>>, FALSE, NoRecord), TRUE)

NextDebounce == Attach \/ StyleLoad \/ CameraEnd \/ Tick \/ SaveTimeoutRuns

SpecDebounce == InitDebounce /\ [][NextDebounce]_vars

\* the burst is over: the interval has passed since the last camera event
\* and no timeout is left
BurstOver ==
    /\ sinceCamera = DebounceTicks
    /\ \A i \in 1..MaxSavers : saveTimeout[i] = NoTimer

\* C24: once a burst of camera events is followed by a quiet debounce
\* interval, exactly one viewport write has been made for it, and no write is
\* made before the interval has passed since the last camera event.
C24_DebouncedViewportWrite ==
    /\ BurstOver => viewportWrites = 1
    /\ viewportWrites > 0 => sinceCamera = DebounceTicks

\* The same with the control attached and the style never loaded again.
C24_SingleSaver ==
    viewportSavers = 1 => C24_DebouncedViewportWrite

-----------------------------------------------------------------------------
\* The cache of loaded content under toggles, retry and removal

InitCache == StartsAs(Construct(<<OvA, OvB>>, FALSE, NoRecord), FALSE)

NextCache ==
    \/ Attach
    \/ ToggleOverlay
    \/ ToggleOverlayResume
    \/ LoaderSettles
    \/ Retry
    \/ RemoveAllOverlays

SpecCache == InitCache /\ [][NextCache]_vars

\* show(id) of a cached overlay returns true at once with the cached layers
\* attached, and starts no load.
ShowsFromCache(r, id) ==
    /\ r.status = "true"
    /\ r.w.calls = calls
    /\ r.w.renderOnClickLoading = renderOnClickLoading
    /\ ~HasEvent(r.w.log, [type |-> "loading", id |-> id])
    /\ r.w.renderOnClickCache = renderOnClickCache
    /\ \A l \in Range(renderOnClickCache[id]) :
           \E i \in DOMAIN r.w.deckLayers : r.w.deckLayers[i].id = l

CacheReused ==
    \A id \in DOMAIN renderOnClickCache, ui \in BOOLEAN :
        (map /\ id \in OverlayIdsOf(World)) => ShowsFromCache(show(World, id, ui), id)

\* an entry leaves the cache only in a retry or a removeAllOverlays step
CacheKept ==
    \A id \in DOMAIN renderOnClickCache :
        id \notin DOMAIN renderOnClickCache' => (Retry \/ RemoveAllOverlays)

\* C25: once the load of an overlay has succeeded, every later show of it,
\* also after it was hidden, attaches the cached content and does not invoke
\* the loader, until a retry or removeAllOverlays drops the cache entry.
C25_CacheReuse == []CacheReused /\ [][CacheKept]_vars

\* a loaded overlay that was hidden again: its content is cached and detached
C25_Witness ==
    \E id \in DOMAIN renderOnClickCache :
        /\ map /\ id \in OverlayIdsOf(World)
        /\ ~overlayStates[id].visible
        /\ ~Attached(renderOnClickCache[id])

-----------------------------------------------------------------------------
\* Layer Order and recorded visibility

\* C26: every overlay whose recorded state is visible appears in Layer Order.
C26_VisibleInLayerOrder ==
    \A id \in DOMAIN overlayStates :
        overlayStates[id].visible => id \in Range(layerOrder)

-----------------------------------------------------------------------------
\* Consolidated variant: StateManager (main.js), UIManager (uiManager.js) and
\* the LayersControl facade over them (layersControl.js).  The manager's
\* dynamicOverlayCache is renderOnClickCache; the specifications of this
\* variant configure no persist.localStorageKey unless they say so.

\* clearTimeout(persistTimeout); persistTimeout = setTimeout(persist, 300).
\* Without a key persist() returns at once, so the timeout is not tracked.
_debouncedPersist(w) ==
    IF w.persist THEN [w EXCEPT !.persistTimeout = TRUE] ELSE w

_emitOverlayChange(w, id, previousState) ==
    emitChange(emit(w, [type |-> "overlaychange", id |-> id,
                        visible |-> w.overlayStates[id].visible,
                        opacity |-> w.overlayStates[id].opacity,
                        previousVisible |-> previousState.visible,
                        previousOpacity |-> previousState.opacity]))

_emitGroupChange(w, groupId) ==
    emitChange(emit(w, [type |-> "overlaygroupchange", groupId |-> groupId,
                        visible |-> w.groupStates[groupId].visible,
                        opacity |-> w.groupStates[groupId].opacity,
                        overlays |-> GroupMembers(w.overlays, groupId)]))

\* this.overlayStates[id].visible = ... throws for an id without an entry
setOverlayVisibility(w, id, visible) ==
    IF id \notin DOMAIN w.overlayStates THEN [w EXCEPT !.exc = TRUE]
    ELSE
    LET previousState == w.overlayStates[id]
        order == IF visible /\ ~previousState.visible
                 THEN _addToLayerOrder(w.layerOrder, id)
                 ELSE IF ~visible /\ previousState.visible
                      THEN _removeFromLayerOrder(w.layerOrder, id)
                      ELSE w.layerOrder
    IN  _emitOverlayChange(_debouncedPersist(
            [w EXCEPT !.overlayStates[id].visible = visible, !.layerOrder = order]),
            id, previousState)

setGroupVisibility(w, id, visible) ==
    IF id \notin DOMAIN w.groupStates THEN [w EXCEPT !.exc = TRUE]
    ELSE _emitGroupChange(_debouncedPersist(
             [w EXCEPT !.groupStates[id].visible = visible]), id)

StateManager_setBase(w, id) ==
    emitChange(emit(_debouncedPersist(
                        [w EXCEPT !.previousBaseId = w.currentBaseId, !.currentBaseId = id]),
                    [type |-> "basechange", baseId |-> id,
                     previousBaseId |-> w.currentBaseId]))

\* loadingStates.set(id, isLoading): the ids mapped to true
_setLoadingState(w, overlayId, isLoading) ==
    [w EXCEPT !.uiManager.loadingStates =
        IF isLoading THEN @ \cup {overlayId} ELSE @ \ {overlayId}]

\* Array.from(this.deckLayers.values()) handed to deckOverlay.setProps
_updateDeckOverlay(w) ==
    IF ~w.uiManager.deckOverlay THEN w
    ELSE [w EXCEPT !.deckProps = LayerIdsOf(w.deckLayers)]

\* returns [w, visible]
UIManager_updateZoomFiltering(w, overlayId) ==
    IF overlayId \notin OverlayIdsOf(w) THEN [w |-> w, visible |-> TRUE]
    ELSE LET record(shouldBeVisible) ==
                 [w |-> [w EXCEPT !.zoomFilteredOverlays =
                            IF shouldBeVisible THEN @ \ {overlayId}
                            ELSE @ \cup {overlayId}],
                  visible |-> shouldBeVisible]
         IN  record(_checkZoomConstraints(w, FindOverlay(w, overlayId)))

\* new LayerClass({id, opacity: overlayState?.opacity || 1.0, ...props})
RECURSIVE ActivateLayers(_, _, _)
ActivateLayers(w, layerIds, overlayId) ==
    IF layerIds = <<>> THEN w
    ELSE ActivateLayers(
             [w EXCEPT !.deckLayers =
                 MapSet(@, [id |-> Head(layerIds),
                            opacity |-> IF overlayId \in DOMAIN w.overlayStates
                                        THEN OrDefault(w.overlayStates[overlayId].opacity,
                                                       OpacityScale)
                                        ELSE OpacityScale])],
             Tail(layerIds), overlayId)

\* The deck overlay is removed, the layer maps are cleared, the style goes to
\* the map, and the restore waits for styledata and its timeout.
UIManager_applyBaseToMap(w, baseId) ==
    IF ~w.map \/ baseId \notin BaseIds THEN w
    ELSE AddCall([w EXCEPT !.uiManager.deckOverlay = FALSE,
                           !.uiManager.overlayToLayerIds = <<>>,
                           !.deckLayers = <<>>,
                           !.deckProps = <<>>],
                 Call("restore", NoGroup, NoOverlay, FALSE, "scheduled", FALSE, TRUE,
                      NoGroup, <<>>))

handleBaseChange(w, baseId) ==
    UIManager_applyBaseToMap(StateManager_setBase(w, baseId), baseId)

\* _activateOverlay from the forced base style to its end, run with the
\* overlay as it holds it.  map.jumpTo, fitBounds and the pan move the camera,
\* which the managers do not record.
activateTail(w, overlay, overlayId, isUserInteraction) ==
    LET shouldForceBase == isUserInteraction \/ overlay.forcedBaseLayerId # NoBase
        forceBase(v) ==
            IF /\ shouldForceBase
               /\ overlay.forcedBaseLayerId # NoBase
               /\ overlay.forcedBaseLayerId \in BaseIds
               /\ v.currentBaseId # overlay.forcedBaseLayerId
            THEN handleBaseChange(v, overlay.forcedBaseLayerId)
            ELSE v
        layers(v) ==
            IF overlay.hasDeckLayers
            THEN _updateDeckOverlay(
                     [ActivateLayers(v, overlay.deckLayers, overlayId) EXCEPT
                         !.uiManager.overlayToLayerIds =
                             SetKey(@, overlayId, overlay.deckLayers)])
            ELSE v
        settled(v) == [_setLoadingState(v, overlayId, FALSE) EXCEPT
                          !.uiManager.errorStates = @ \ {overlayId}]
        filtered(z) == IF ~z.visible THEN _setLoadingState(z.w, overlayId, FALSE)
                       ELSE settled(layers(z.w))
    IN  filtered(UIManager_updateZoomFiltering(forceBase(w), overlayId))

\* _activateOverlay up to its await: the loader is invoked whenever the
\* overlay is deferred and the cache has no entry for it.
_activateOverlay(w, overlayId, isUserInteraction) ==
    IF ~w.map \/ ~w.uiManager.deckOverlay \/ overlayId \notin OverlayIdsOf(w) THEN w
    ELSE
    LET overlay == FindOverlay(w, overlayId)
        w1 == _setLoadingState(w, overlayId, TRUE)
    IN  IF overlay.renderOnClick /\ overlayId \notin DOMAIN w.renderOnClickCache
        THEN AddCall(w1, Call("activate", overlayId, overlay, isUserInteraction,
                              "loading", FALSE, TRUE, NoGroup, <<>>))
        ELSE activateTail(w1,
                          IF overlay.renderOnClick
                          THEN [overlay EXCEPT !.hasDeckLayers = TRUE,
                                               !.deckLayers = w.renderOnClickCache[overlayId]]
                          ELSE overlay,
                          overlayId, isUserInteraction)

\* _activateOverlay from the point where the loader's promise settles
activateResume(w, c, outcome) ==
    IF outcome = "ok"
    THEN activateTail([DropCall(w, c) EXCEPT
                          !.renderOnClickCache = SetKey(@, c.id, c.overlay.loads)],
                      [c.overlay EXCEPT !.hasDeckLayers = TRUE,
                                        !.deckLayers = c.overlay.loads],
                      c.id, c.user)
    ELSE [_setLoadingState(DropCall(w, c), c.id, FALSE) EXCEPT
             !.uiManager.errorStates = @ \cup {c.id}]

_deactivateOverlay(w, overlayId) ==
    LET known == overlayId \in DOMAIN w.uiManager.overlayToLayerIds
        w1 == IF known
              THEN [w EXCEPT
                       !.deckLayers =
                           MapDeleteAll(@, Range(w.uiManager.overlayToLayerIds[overlayId])),
                       !.uiManager.overlayToLayerIds = RemoveKey(@, overlayId)]
              ELSE w
    IN  _setLoadingState(_updateDeckOverlay(
            [w1 EXCEPT !.zoomFilteredOverlays = @ \ {overlayId}]), overlayId, FALSE)

handleToggleOverlay(w, overlayId) ==
    IF overlayId \notin DOMAIN w.overlayStates THEN [w EXCEPT !.exc = TRUE]
    ELSE LET newVisibility == ~w.overlayStates[overlayId].visible
             w1 == setOverlayVisibility(w, overlayId, newVisibility)
         IN  IF newVisibility THEN _activateOverlay(w1, overlayId, TRUE)
             ELSE _deactivateOverlay(w1, overlayId)

\* the forEach over the members of handleToggleGroup
RECURSIVE ToggleMembers(_, _, _)
ToggleMembers(w, ids, newVisibility) ==
    IF ids = <<>> THEN w
    ELSE LET w1 == setOverlayVisibility(w, Head(ids), newVisibility)
         IN  ToggleMembers(IF newVisibility THEN _activateOverlay(w1, Head(ids), TRUE)
                           ELSE _deactivateOverlay(w1, Head(ids)),
                           Tail(ids), newVisibility)

handleToggleGroup(w, groupId) ==
    IF groupId \notin DOMAIN w.groupStates THEN [w EXCEPT !.exc = TRUE]
    ELSE LET newVisibility == ~w.groupStates[groupId].visible
         IN  ToggleMembers(setGroupVisibility(w, groupId, newVisibility),
                           GroupMembers(w.overlays, groupId), newVisibility)

showOverlay(w, id) ==
    IF id \notin OverlayIdsOf(w) THEN w
    ELSE _activateOverlay(setOverlayVisibility(w, id, TRUE), id, FALSE)

hideOverlay(w, id) ==
    IF id \notin OverlayIdsOf(w) THEN w
    ELSE _deactivateOverlay(setOverlayVisibility(w, id, FALSE), id)

showGroup(w, id) ==
    IF GroupMembers(w.overlays, id) = <<>> THEN w
    ELSE handleToggleGroup(setGroupVisibility(w, id, TRUE), id)

RECURSIVE HideMembers(_, _)
HideMembers(w, ids) ==
    IF ids = <<>> THEN w
    ELSE HideMembers(_deactivateOverlay(setOverlayVisibility(w, Head(ids), FALSE), Head(ids)),
                     Tail(ids))

hideGroup(w, id) ==
    IF GroupMembers(w.overlays, id) = <<>> THEN w
    ELSE HideMembers(setGroupVisibility(w, id, FALSE), GroupMembers(w.overlays, id))

\* setTimeout(() => _activateOverlay(id), 200) for every visible overlay
RECURSIVE ScheduleVisible(_, _)
ScheduleVisible(w, ids) ==
    IF ids = <<>> THEN w
    ELSE ScheduleVisible(
             IF w.overlayStates[Head(ids)].visible
             THEN AddCall(w, Call("activate", Head(ids), NoOverlay, FALSE, "scheduled",
                                  FALSE, TRUE, NoGroup, <<>>))
             ELSE w,
             Tail(ids))

StateKeys(w) == SelectSeq(LayerIdsOf(w.overlays), LAMBDA id : id \in DOMAIN w.overlayStates)

\* onAdd: setMap creates the deck overlay; _restoreMapState hands the style
\* to the map and schedules the visible overlays.
LayersControl_onAdd(w, zoom) ==
    ScheduleVisible([w EXCEPT !.map = TRUE, !.mapZoom = zoom,
                              !.uiManager.deckOverlay = TRUE],
                    StateKeys(w))

\* the styledata timeout of _applyBaseToMap: a new deck overlay, then every
\* visible overlay is activated again
RECURSIVE RestoreVisible(_, _)
RestoreVisible(w, ids) ==
    IF ids = <<>> THEN w
    ELSE RestoreVisible(IF w.overlayStates[Head(ids)].visible
                        THEN _activateOverlay(w, Head(ids), FALSE) ELSE w,
                        Tail(ids))

restoreRuns(w, c) ==
    RestoreVisible([DropCall(w, c) EXCEPT !.uiManager.deckOverlay = w.map], StateKeys(w))

UnifiedBaseArgs == {"b1", "b2"}

UnifiedAttach ==
    /\ ~map
    /\ \E z \in AttachZooms : Step(LayersControl_onAdd(World, z))

HandleToggleOverlay == \E id \in DOMAIN overlayStates : Step(handleToggleOverlay(World, id))

HandleToggleGroup == \E g \in DOMAIN groupStates : Step(handleToggleGroup(World, g))

HandleBaseChange == \E b \in UnifiedBaseArgs : Step(handleBaseChange(World, b))

ShowOverlay == \E id \in DOMAIN overlayStates : Step(showOverlay(World, id))

HideOverlay == \E id \in DOMAIN overlayStates : Step(hideOverlay(World, id))

ShowGroup == \E g \in DOMAIN groupStates : Step(showGroup(World, g))

HideGroup == \E g \in DOMAIN groupStates : Step(hideGroup(World, g))

ActivateSettles ==
    \E c \in BagToSet(calls), outcome \in Outcomes :
        /\ c.kind = "activate" /\ c.stage = "loading"
        /\ Step(activateResume(World, c, outcome))

ScheduledRuns ==
    \E c \in BagToSet(calls) :
        /\ c.stage = "scheduled"
        /\ Step(IF c.kind = "restore" THEN restoreRuns(World, c)
                ELSE _activateOverlay(DropCall(World, c), c.id, FALSE))

UnifiedConfigs == {<<OvA, OvB>>, <<OvB, OvC>>}

InitUnified == \E ovs \in UnifiedConfigs : StartsAs(Construct(ovs, FALSE, NoRecord), FALSE)

NextUnified ==
    \/ UnifiedAttach
    \/ HandleToggleOverlay
    \/ HandleToggleGroup
    \/ HandleBaseChange
    \/ ShowOverlay
    \/ HideOverlay
    \/ ShowGroup
    \/ HideGroup
    \/ ActivateSettles
    \/ ScheduledRuns

SpecUnified == InitUnified /\ [][NextUnified]_vars

GroupAll(w, g, flag) ==
    /\ w.groupStates[g].visible = flag
    /\ \A id \in Range(GroupMembers(w.overlays, g)) : w.overlayStates[id].visible = flag

\* C27: for a group with member overlays, after showGroup the group and
\* every member are recorded visible, whatever the state before; after
\* hideGroup they are all recorded hidden.
C27_GroupShowHide ==
    \A g \in DOMAIN groupStates :
        GroupMembers(overlays, g) # <<>> =>
            /\ GroupAll(showGroup(World, g), g, TRUE)
            /\ GroupAll(hideGroup(World, g), g, FALSE)

\* The hideGroup half, and what showGroup leaves.
C27_HideGroupHides ==
    \A g \in DOMAIN groupStates :
        GroupMembers(overlays, g) # <<>> =>
            /\ GroupAll(hideGroup(World, g), g, FALSE)
            /\ GroupAll(showGroup(World, g), g, FALSE)

ActivationsLoading(id) ==
    SumCopies({c \in BagToSet(calls) :
                  c.kind = "activate" /\ c.stage = "loading" /\ c.id = id}, calls)

\* C30: the loader of an overlay is never invoked while an earlier
\* invocation for the same overlay id is still pending.
C30_OneActivationLoad ==
    \A id \in DOMAIN overlayStates : ActivationsLoading(id) <= 1

-----------------------------------------------------------------------------
\* The list handed to the render surface and Layer Order

\* position of a layer id in a list of layer ids (0: absent)
IndexOf(list, l) ==
    IF l \in Range(list) THEN CHOOSE i \in DOMAIN list : list[i] = l ELSE 0

\* the attached content of two overlays comes in their order
ContentInOrder(w, list, first, second) ==
    \A la \in Range(ContentOf(w, first)), lb \in Range(ContentOf(w, second)) :
        (la \in Range(list) /\ lb \in Range(list)) => IndexOf(list, la) < IndexOf(list, lb)

FollowsLayerOrder(w, list) ==
    \A i, j \in DOMAIN w.layerOrder :
        (/\ i < j
         /\ w.layerOrder[i] \in OverlayIdsOf(w)
         /\ w.layerOrder[j] \in OverlayIdsOf(w))
            => ContentInOrder(w, list, w.layerOrder[i], w.layerOrder[j])

\* C28: whenever the content list is pushed to the render surface, the
\* attached content of an overlay earlier in Layer Order precedes that of an
\* overlay later in it, for declared and for loaded content alike.  Any
\* reachable state can be pushed from (applyOpacity, hide), and
\* _updateDeckLayers computes what is pushed.
C28_RenderFollowsLayerOrder ==
    map => FollowsLayerOrder(World, _updateDeckLayers(World).deckProps)

\* The same for overlays with declared content only.
C28_DeclaredFollowLayerOrder ==
    (map /\ \A id \in Range(layerOrder) :
                id \in OverlayIdsOf(World) => ~FindOverlay(World, id).renderOnClick)
        => FollowsLayerOrder(World, _updateDeckLayers(World).deckProps)

-----------------------------------------------------------------------------
\* Load completion under fair loaders

\* the loader invoked for id settles (it resolves, resolves without
\* deckLayers, or rejects)
LoaderSettlesOf(id) ==
    \E c \in BagToSet(calls), outcome \in Outcomes :
        /\ c.stage = "loading" /\ c.overlay.id = id
        /\ Step(TracedFor(loaderSettles(World, c, outcome), c))

InitLive == StartsAs(Construct(<<OvA, OvB>>, FALSE, NoRecord), TRUE)

NextLive ==
    \/ Attach
    \/ ToggleOverlay
    \/ ToggleOverlayResume
    \/ LoaderSettles
    \/ Retry

\* every invoked loader eventually settles
SpecLive ==
    /\ InitLive
    /\ [][NextLive]_vars
    /\ \A id \in PoolIds : WF_vars(LoaderSettlesOf(id))

LoadEnded(evs, id) ==
    \E i \in DOMAIN evs : evs[i].type \in {"success", "error"} /\ evs[i].id = id

\* Between the states of one step: a loading event is emitted only for an
\* id not marked, it marks the id, and the mark goes only with a success or
\* an error event for the id.
LoadEventsAlternate ==
    \A id \in PoolIds :
        /\ HasEvent(log', [type |-> "loading", id |-> id])
               => (id \notin renderOnClickLoading /\ id \in renderOnClickLoading')
        /\ (id \notin renderOnClickLoading /\ id \in renderOnClickLoading')
               => HasEvent(log', [type |-> "loading", id |-> id])
        /\ (id \in renderOnClickLoading /\ id \notin renderOnClickLoading')
               => LoadEnded(log', id)

\* C29: with loaders that always settle, every id marked in-flight is
\* eventually unmarked, each loading event for an id is followed by a success
\* or an error event for it before any further loading event for it, and no
\* state without a suspended call has an id marked in-flight.
C29_LoadCompletes ==
    /\ \A id \in PoolIds :
           (id \in renderOnClickLoading) ~> (id \notin renderOnClickLoading)
    /\ [][LoadEventsAlternate]_vars
    /\ [](calls = EmptyBag => renderOnClickLoading = {})

\* a load that was in flight has just failed and the id is unmarked
C29_Witness ==
    \E id \in PoolIds :
        /\ id \notin renderOnClickLoading
        /\ id \in renderOnClickErrors
        /\ LoadEnded(log, id)
        /\ calls = EmptyBag

-----------------------------------------------------------------------------
\* Consolidated facade: overlay removal and layer ordering

\* StateManager.reorderLayers
reorderLayers(w, newOrder) == emitChange(_debouncedPersist([w EXCEPT !.layerOrder = newOrder]))

\* removeOverlay of the facade: a visible overlay is hidden and deactivated,
\* the configuration entry is spliced out.  The deletions that follow act on
\* the copies stateManager.get('overlays') and get('layerOrder') return, which
\* are dropped.
Facade_removeOverlay(w, id) ==
    IF id \notin OverlayIdsOf(w) THEN w
    ELSE
    LET overlayIndex == CHOOSE i \in DOMAIN w.overlays :
                            /\ w.overlays[i].id = id
                            /\ \A j \in DOMAIN w.overlays : w.overlays[j].id = id => i <= j
        w1 == IF id \in DOMAIN w.overlayStates /\ w.overlayStates[id].visible
              THEN _deactivateOverlay(setOverlayVisibility(w, id, FALSE), id)
              ELSE w
    IN  [w1 EXCEPT !.overlays = SubSeq(@, 1, overlayIndex - 1)
                                \o SubSeq(@, overlayIndex + 1, Len(@))]

bringOverlayToFront(w, id) ==
    reorderLayers(w, Append(_removeFromLayerOrder(w.layerOrder, id), id))

sendOverlayToBack(w, id) ==
    reorderLayers(w, <<id>> \o _removeFromLayerOrder(w.layerOrder, id))

\* orderedIds.filter(id => options.overlays.some(o => o.id === id))
reorderOverlays(w, orderedIds) ==
    reorderLayers(w, SelectSeq(orderedIds, LAMBDA id : id \in OverlayIdsOf(w)))

\* ids passed to the ordering calls: configured or not
OrderIds == {"A", "B", "Z"}

OrderLists == {<<>>, <<"B">>, <<"B", "A">>, <<"A", "A">>, <<"Z", "B">>}

FacadeRemoveOverlay == \E id \in OrderIds : Step(Facade_removeOverlay(World, id))

BringOverlayToFront == \E id \in OrderIds : Step(bringOverlayToFront(World, id))

SendOverlayToBack == \E id \in OrderIds : Step(sendOverlayToBack(World, id))

ReorderOverlays == \E ids \in OrderLists : Step(reorderOverlays(World, ids))

InitOrder == StartsAs(Construct(<<OvA, OvB>>, FALSE, NoRecord), FALSE)

NextOrder ==
    \/ UnifiedAttach
    \/ HandleToggleOverlay
    \/ ActivateSettles
    \/ FacadeRemoveOverlay
    \/ BringOverlayToFront
    \/ SendOverlayToBack
    \/ ReorderOverlays

SpecOrder == InitOrder /\ [][NextOrder]_vars

\* C31: after removeOverlay(id) of a configured overlay, the StateManager
\* holds no Overlay State entry for id and Layer Order does not contain id.
C31_RemovedLeavesNoState ==
    \A id \in OverlayIdsOf(World) :
        /\ id \notin DOMAIN Facade_removeOverlay(World, id).overlayStates
        /\ id \notin Range(Facade_removeOverlay(World, id).layerOrder)

\* Layer Order holds no id twice and only ids recorded visible
LayerOrderSound(w) ==
    /\ \A i, j \in DOMAIN w.layerOrder : w.layerOrder[i] = w.layerOrder[j] => i = j
    /\ \A id \in Range(w.layerOrder) :
           id \in DOMAIN w.overlayStates /\ w.overlayStates[id].visible

\* C32: bringOverlayToFront, sendOverlayToBack and reorderOverlays keep Layer
\* Order free of repeated ids and of ids not recorded visible, for every
\* argument.
C32_ReorderKeepsLayerOrder ==
    LayerOrderSound(World) =>
        /\ \A id \in OrderIds :
               /\ LayerOrderSound(bringOverlayToFront(World, id))
               /\ LayerOrderSound(sendOverlayToBack(World, id))
        /\ \A ids \in OrderLists : LayerOrderSound(reorderOverlays(World, ids))

\* The same for arguments that are permutations of the current Layer Order,
\* and for ids in it.
C32_PermutationKeepsLayerOrder ==
    LayerOrderSound(World) =>
        /\ \A id \in Range(layerOrder) :
               /\ LayerOrderSound(bringOverlayToFront(World, id))
               /\ LayerOrderSound(sendOverlayToBack(World, id))
        /\ \A ids \in OrderLists :
               (Range(ids) = Range(layerOrder) /\ Len(ids) = Len(layerOrder)
                /\ Range(ids) \subseteq OverlayIdsOf(World))
                   => LayerOrderSound(reorderOverlays(World, ids))

-----------------------------------------------------------------------------
\* Hiding and removing an overlay while its load is in flight

\* the only suspended call is the toggleOverlay(id, true) waiting for its loader
OnlyLoadingToggle(id) ==
    /\ BagCardinality(calls) = 1
    /\ \E c \in BagToSet(calls) :
           c.kind = "toggle" /\ c.stage = "loading" /\ c.id = id /\ c.newVisible

OverlayOff(w, id) ==
    /\ \A l \in Range(ContentOf(w, id)) : ~MapHas(w.deckLayers, l)
    /\ ~w.overlayStates[id].visible
    /\ id \notin Range(w.layerOrder)

\* C33: toggleOverlay(id, false) called while the load started by
\* toggleOverlay(id, true) is in flight wins: once the load has resolved and
\* both calls have completed, no content of id is attached, id is recorded
\* hidden and is not in Layer Order.
C33_HideWinsOverLoad ==
    \A id \in PoolIds :
        OnlyLoadingToggle(id) =>
            OverlayOff(RunCalls(toggleOverlay(World, id, "false", FALSE), id), id)

\* What the code leaves instead: the overlay shown.
C33_LoadWinsOverHide ==
    \A id \in PoolIds :
        OnlyLoadingToggle(id) =>
            ~OverlayOff(RunCalls(toggleOverlay(World, id, "false", FALSE), id), id)

\* what removeOverlay(id) during the load of the call c must leave once the
\* load has resolved and the toggle has completed
RemovedStaysOff(w, c) ==
    /\ \A l \in Range(c.overlay.loads) : ~MapHas(w.deckLayers, l)
    /\ c.id \notin DOMAIN w.overlayStates
    /\ ~w.exc

\* C34: removeOverlay(id) called while a load for id is in flight is safe:
\* when the load resolves no content of id is attached, no Overlay State
\* entry for id reappears, and the pending toggleOverlay call completes
\* without an exception.
C34_RemoveDuringLoadSafe ==
    \A c \in BagToSet(calls) :
        (OnlyLoadingToggle(c.id) /\ c.id \in OverlayIdsOf(World)) =>
            RemovedStaysOff(RunCalls(removeOverlay(World, c.id), c.id), c)

\* The part that holds: no entry reappears.
C34_NoEntryReappears ==
    \A c \in BagToSet(calls) :
        (OnlyLoadingToggle(c.id) /\ c.id \in OverlayIdsOf(World)) =>
            c.id \notin DOMAIN RunCalls(removeOverlay(World, c.id), c.id).overlayStates

\* ------------------------------------------------------------------------
\* Render surface against recorded state

\* map attached, no load in flight, no pending timer
Quiescent == map /\ calls = EmptyBag /\ saveTimeout = NoTimeouts

RenderAgrees(o) ==
    Attached(o.deckLayers) <=>
        (overlayStates[o.id].visible /\ o.id \notin zoomFilteredOverlays)

\* C35: at every quiescent state (map attached, no load in flight, no pending
\* timer) the content of a statically declared overlay is attached to the
\* render surface exactly when its recorded state is visible and it is not
\* zoom-filtered.
C35_RenderAgreesWithState ==
    Quiescent =>
        \A i \in DOMAIN overlays :
            (overlays[i].hasDeckLayers /\ overlays[i].id \in DOMAIN overlayStates)
                => RenderAgrees(overlays[i])

-----------------------------------------------------------------------------
\* Unsubscribing while a publish runs

Times(list, x) == Cardinality({i \in DOMAIN list : list[i] = x})

\* handler is subscribed once when the publish starts and still is when it ends
KeptThrough(evs, run, event, handler) ==
    /\ Times(evs[event], handler) = 1
    /\ Times(run.events[event], handler) = 1

InvokedOnce(evs, event, handler) ==
    KeptThrough(evs, EventEmitter_emit(evs, event), event, handler) =>
        Times(EventEmitter_emit(evs, event).calls, handler.name) = 1

\* C36: a handler subscribed to an event when a publish starts and not
\* unsubscribed during that publish is invoked exactly once by it, also
\* when a handler unsubscribes itself while the publish is running.
C36_UnsubscribeDuringPublish ==
    \A event \in EventNames, handler \in Handlers :
        InvokedOnce(events, event, handler)

\* What the code gives: such a handler is invoked at most once.
C36_InvokedAtMostOnce ==
    \A event \in EventNames, handler \in Handlers :
        KeptThrough(events, EventEmitter_emit(events, event), event, handler) =>
            Times(EventEmitter_emit(events, event).calls, handler.name) <= 1

-----------------------------------------------------------------------------
\* Lifecycle bookkeeping of the OverlayManager

Bookkeeping(w) ==
    DOMAIN w.renderOnClickCache \cup w.renderOnClickLoading
        \cup w.renderOnClickErrors \cup w.zoomFilteredOverlays

\* C37: the render-on-demand cache, the in-flight set, the load-error set
\* and the zoom-filtered set hold only ids of configured overlays, and
\* removeOverlay(id) discards the cached load result of id.
C37_BookkeepingConfigured ==
    /\ Bookkeeping(World) \subseteq OverlayIdsOf(World)
    /\ \A id \in OverlayIdsOf(World) :
           id \notin DOMAIN removeOverlay(World, id).renderOnClickCache

\* The in-flight part alone, at states where no call is suspended.
C37_IdleNothingInFlight ==
    calls = EmptyBag => renderOnClickLoading = {}

-----------------------------------------------------------------------------
\* StateManager with a localStorage key: debounced persistence

\* persist(): getAll() written under the key; a throwing setItem is caught.
StateManager_persist(w) ==
    IF ~w.persist \/ w.storage = StorageDown THEN w
    ELSE [w EXCEPT !.storage = getState(w),
                   !.log = Append(@, [type |-> "persist", record |-> getState(w)])]

\* clearPersisted(): removeItem and one memorycleared event; the timeout of
\* _debouncedPersist is left as it is.
clearPersisted(w) ==
    IF ~w.persist \/ w.storage = StorageDown THEN w
    ELSE emit([w EXCEPT !.storage = NoRecord], [type |-> "memorycleared"])

\* the callback of the timeout: () => { this.persist(); }
persistTimeoutRuns(w) ==
    IF w.persistTimeout THEN StateManager_persist([w EXCEPT !.persistTimeout = FALSE])
    ELSE w

ManagerSetOverlayVisibility ==
    \E id \in PoolIds, visible \in BOOLEAN :
        /\ id \in DOMAIN overlayStates
        /\ Step(setOverlayVisibility(World, id, visible))

ManagerSetGroupVisibility ==
    \E g \in GroupIds, visible \in BOOLEAN : Step(setGroupVisibility(World, g, visible))

ManagerSetBase ==
    \E id \in BaseIds : Step(StateManager_setBase(World, id))

PersistTimeoutRuns ==
    persistTimeout /\ Step(persistTimeoutRuns(World))

ClearPersisted == Step(clearPersisted(World))

InitManager == StartsAs(Construct(<<OvA, OvB>>, TRUE, NoRecord), FALSE)

NextManager ==
    \/ ManagerSetOverlayVisibility
    \/ ManagerSetGroupVisibility
    \/ ManagerSetBase
    \/ PersistTimeoutRuns
    \/ ClearPersisted

SpecManager == InitManager /\ [][NextManager]_vars

\* C38: once clearPersisted() has returned, work done before it cannot bring
\* the durable record back: with no mutating operation invoked after the
\* clear, the record is still absent after the pending timeout has run.
C38_ClearNotUndone ==
    persistTimeoutRuns(clearPersisted(World)).storage = NoRecord

-----------------------------------------------------------------------------
\* Style switching: map.setStyle requests and the style.load they cause

MaxReloads == 3

\* The render surface answers each pending map.setStyle with one style.load,
\* which runs _onStyleLoad; at most n of them are delivered.
RECURSIVE Reloads(_, _)
Reloads(w, n) ==
    IF n = 0 \/ w.styleRequests = 0 THEN w
    ELSE Reloads(_onStyleLoad([w EXCEPT !.styleRequests = @ - 1]), n - 1)

StyleSettles(w) == Reloads(w, MaxReloads).styleRequests = 0

FacadeSetBase ==
    \E baseId \in BaseIds : Step(Fresh(LayersControl_setBase(World, baseId)))

InitStyle == StartsAs(Construct(<<OvA, OvB>>, FALSE, NoRecord), FALSE)

NextStyle ==
    \/ Attach
    \/ FacadeSetBase
    \/ StyleLoad
    \/ ToggleOverlay
    \/ ToggleOverlayResume
    \/ LoaderSettles

SpecStyle == InitStyle /\ [][NextStyle]_vars

\* C39: with one style.load delivered for every map.setStyle, a single
\* attach, or a single setBase to a setStyle base, is followed by a bounded
\* number of map.setStyle requests: after at most MaxReloads reloads none
\* is pending.
C39_StyleSwitchTerminates ==
    /\ ~map => \A z \in AttachZooms : StyleSettles(onAdd(World, z))
    /\ map => \A baseId \in BaseIds :
                  SetStyleBase(baseId) => StyleSettles(LayersControl_setBase(World, baseId))

\* On a toggleBackground base neither makes a request.
C39_BackgroundBaseSettles ==
    ~SetStyleBase(currentBaseId) =>
        /\ ~map => \A z \in AttachZooms : onAdd(World, z).styleRequests = 0
        /\ map => LayersControl_setBase(World, currentBaseId).styleRequests = 0

-----------------------------------------------------------------------------
\* Default opacity of an overlay at construction and through addOverlay

\* defaultOpacity: not configured, 0, 0.5, 1.0
DefaultOpacities == {Undef, 0, 5, OpacityScale}

WithOpacity(overlay, d) == [overlay EXCEPT !.defaultOpacity = d]

DefaultPool == {WithOpacity(o, d) : o \in AddPool, d \in DefaultOpacities}

AddDefaulted ==
    \E o \in DefaultPool : o.id \notin OverlayIdsOf(World) /\ Step(Fresh(addOverlay(World, o)))

InitDefaults ==
    \E d \in DefaultOpacities :
        StartsAs(Construct(<<WithOpacity(OvB, d)>>, FALSE, NoRecord), FALSE)

NextDefaults ==
    \/ Attach
    \/ AddDefaulted
    \/ RemoveOverlay
    \/ LoaderSettles

SpecDefaults == InitDefaults /\ [][NextDefaults]_vars

ConfiguredOpacity(overlay) ==
    IF overlay.defaultOpacity = Undef THEN OpacityScale ELSE overlay.defaultOpacity

\* the opacity recorded for every overlay of w is its configured default
DefaultsHonoured(w) ==
    \A i \in DOMAIN w.overlays :
        w.overlayStates[w.overlays[i].id].opacity = ConfiguredOpacity(w.overlays[i])

AddedHonoured(w, o) ==
    o.id \in OverlayIdsOf(w) \/
        addOverlay(w, o).overlayStates[o.id].opacity = ConfiguredOpacity(o)

\* C40: the opacity recorded for an overlay right after it is introduced, at
\* construction without a persisted record or through addOverlay, is its
\* configured default opacity for every default in [0,1], 0 included, and
\* 1.0 when none is configured.
C40_DefaultOpacityHonoured ==
    /\ DefaultsHonoured(Construct(overlays, persist, NoRecord))
    /\ \A o \in DefaultPool : AddedHonoured(World, o)

\* addOverlay alone honours every default.
C40_AddOverlayHonoursDefault ==
    \A o \in DefaultPool : AddedHonoured(World, o)

\* Construction honours every default other than 0.
C40_NonZeroDefaultsHonoured ==
    (\A i \in DOMAIN overlays : overlays[i].defaultOpacity # 0) =>
        DefaultsHonoured(Construct(overlays, persist, NoRecord))

====
